---------------------------- MODULE Spec2Model ----------------------------
(***************************************************************************)
(* ChatWrapped: the transcript parser (parseChatFile, parseDate,           *)
(* detectDateFormat) and the analytics engine (analyzeMessages).           *)
(*                                                                         *)
(* A text is a sequence of symbols.  A symbol is a character or one        *)
(* timestamp prefix: everything TIMESTAMP_PATTERN consumes at the start of *)
(* a line, kept as its two captures (the three numbers of the date and the *)
(* hour, minute and meridiem letters of the time).  A line starts a        *)
(* message exactly when its first symbol is a timestamp prefix.            *)
(*                                                                         *)
(* A Date is [day, sec]: the local calendar day counted from 1970-01-01    *)
(* and the second of that day.  The host has a fixed offset from UTC.      *)
(***************************************************************************)
EXTENDS Integers, Sequences, FiniteSets, TLC

VARIABLES
    pc,           \* where the modelled call stands
    text,         \* parseChatFile: the file's text (event.target.result)
    locale,       \* navigator.language, as its subtags
    lines,        \* parseChatFile / detectDateFormat: the split lines
    scan,         \* detectDateFormat: lines of the window already looked at
    detect,       \* detectDateFormat: maxFirst, maxSecond, isYMD
    dateFormat,   \* the resolved order: "DMY", "MDY" or "YMD"
    lineNo,       \* parseChatFile: lines already consumed by the loop
    parser,       \* parseChatFile: messages and lastMessage
    result,       \* parseChatFile: the resolved ParseResult
    chat,         \* analyzeMessages: the message list passed in
    yearFilter,   \* analyzeMessages: the year filter (0: none given)
    tz,           \* the host's offset from UTC, in seconds east
    now,          \* the host's clock, read by new Date()
    calls,        \* the AnalysisResults returned so far, in call order
    stamp,        \* parseDate: the date and time captures and the date order
    parsed,       \* parseDate: the Date returned
    viewState,    \* App: 'upload' or 'story'
    slides        \* StoryView: the slide list, or the error its render threw

vars == <<pc, text, locale, lines, scan, detect, dateFormat, lineNo, parser,
          result, chat, yearFilter, tz, now, calls, stamp, parsed, viewState,
          slides>>

parseVars == <<text, locale, lines, scan, detect, dateFormat, lineNo, parser, result>>
analyzeVars == <<chat, yearFilter, tz, now, calls>>
timeVars == <<stamp, parsed>>
appVars == <<viewState, slides>>

-----------------------------------------------------------------------------
(* Bounds of the model. *)

MaxLines == 3
MaxSample == 3
MaxMessages == 3

-----------------------------------------------------------------------------
(* Symbols and strings. *)

Chr(c) == [k |-> "chr", c |-> c, date |-> <<>>, time |-> <<>>]

\* A timestamp prefix: date = the three numbers of capture 1, time = hour,
\* minute and meridiem letters ("" when absent) of capture 2.
Ts(date, time) == [k |-> "ts", c |-> "", date |-> date, time |-> time]

\* A string, given as the tuple of its characters.
Str(s) == [i \in 1..Len(s) |-> Chr(s[i])]

IsTs(sym) == sym.k = "ts"

Colon == Chr(":")
NL == Chr("\n")
CR == Chr("\r")
SP == Chr(" ")
LRM == Chr("LRM")
RLM == Chr("RLM")

\* String.prototype.trim: white space and line terminators at both ends.
IsSpace(sym) == sym \in {SP, CR, NL}

RECURSIVE TrimStart(_)
TrimStart(s) ==
    IF s # <<>> /\ IsSpace(Head(s)) THEN TrimStart(Tail(s)) ELSE s

RECURSIVE TrimEnd(_)
TrimEnd(s) ==
    IF s # <<>> /\ IsSpace(s[Len(s)]) THEN TrimEnd(SubSeq(s, 1, Len(s) - 1)) ELSE s

Trim(s) == TrimEnd(TrimStart(s))

\* String.prototype.indexOf(':'), 1-based; 0 when there is none (-1 in the code).
IndexOfColon(s) ==
    IF \E i \in 1..Len(s) : s[i] = Colon
    THEN CHOOSE i \in 1..Len(s) : s[i] = Colon /\ \A j \in 1..(i - 1) : s[j] # Colon
    ELSE 0

\* text.replace(/[\u200e\u200f]/g, ""): the directional marks are dropped.
RemoveMarks(s) == SelectSeq(s, LAMBDA sym : sym \notin {LRM, RLM})

\* cleanText.split(/\r?\n/): every "\n" ends a line, and a "\r" right before
\* it belongs to the separator.
RECURSIVE SplitFrom(_, _, _)
SplitFrom(s, i, cur) ==
    IF i > Len(s) THEN <<cur>>
    ELSE IF s[i] = NL
         THEN <<(IF cur # <<>> /\ cur[Len(cur)] = CR
                 THEN SubSeq(cur, 1, Len(cur) - 1) ELSE cur)>>
              \o SplitFrom(s, i + 1, <<>>)
         ELSE SplitFrom(s, i + 1, Append(cur, s[i]))

SplitLines(s) == SplitFrom(s, 1, <<>>)

\* line.match(TIMESTAMP_PATTERN): anchored at the start of the line.
Matches(line) == line # <<>> /\ IsTs(line[1])

-----------------------------------------------------------------------------
(* The Date of the host: new Date(year, monthIndex, day, hours, minutes).   *)

NullDate == [day |-> 0, sec |-> -1]

DayFromYear(y) ==
    365 * (y - 1970) + ((y - 1969) \div 4) - ((y - 1901) \div 100) + ((y - 1601) \div 400)

IsLeap(y) == (y % 4 = 0 /\ y % 100 # 0) \/ y % 400 = 0

MonthStart(y, m0) ==
    LET base == <<0, 31, 59, 90, 120, 151, 181, 212, 243, 273, 304, 334>>
    IN  base[m0 + 1] + (IF m0 >= 2 /\ IsLeap(y) THEN 1 ELSE 0)

\* MakeDay: a month index outside 0..11 carries into the year, a day outside
\* the month carries into the following months (day 32 of January is
\* February 1).
MakeDay(year, m0, date) ==
    LET ym == year + (m0 \div 12)
        mn == m0 % 12
    IN  DayFromYear(ym) + MonthStart(ym, mn) + date - 1

\* The time value is NaN only beyond 100,000,000 days from the epoch.
MaxDateDay == 100000000

NewDate(year, m0, date, hours, minutes) ==
    LET mins == hours * 60 + minutes
        day == MakeDay(year, m0, date) + (mins \div 1440)
    IN  IF day > MaxDateDay \/ day < -MaxDateDay
        THEN NullDate
        ELSE [day |-> day, sec |-> (mins % 1440) * 60]

\* Date.prototype.getTime differences, in seconds.
Diff(a, b) == (a.day - b.day) * 86400 + (a.sec - b.sec)

\* The years a Date of the model can fall in.
Years == 1969..2031

\* Date.prototype.getFullYear (local time).
FullYear(d) == CHOOSE y \in Years : DayFromYear(y) <= d.day /\ d.day < DayFromYear(y + 1)

\* Date.prototype.getHours and getDay (local time); 1970-01-01 was a Thursday.
Hours(d) == d.sec \div 3600
WeekDay(d) == (d.day + 4) % 7

\* msg.date.toISOString().split('T')[0]: the calendar day in UTC, kept as the
\* day number (ISO date strings of the years 0000..9999 sort as their days do,
\* and new Date(dateStr) is that day's UTC midnight).
DateKey(d, off) == d.day + ((d.sec - off) \div 86400)

\* The local calendar day of a Date.
LocalDay(d) == d.day

-----------------------------------------------------------------------------
(* parseDate *)

\* timeStr.toLowerCase() of the letters after the time (two at most).
ToLowerCase(mer) ==
    CASE mer \in {"AM", "Am", "aM"} -> "am"
      [] mer \in {"PM", "Pm", "pM"} -> "pm"
      [] mer = "A" -> "a"
      [] mer = "P" -> "p"
      [] OTHER -> mer

\* MeridiemHours adding 12 to every PM hour.
MeridiemHoursMut(hours, mer) ==
    LET isPM == ToLowerCase(mer) = "pm"
        isAM == ToLowerCase(mer) = "am"
        h1 == IF isPM THEN hours + 12 ELSE hours
    IN  IF isAM /\ h1 = 12 THEN 0 ELSE h1

\* The hour after the AM/PM rules of parseDate.  The time capture holds no
\* letters but those after the time, so includes('pm') finds them or
\* nothing, and 'p.m' and 'a.m' are never found.
MeridiemHours(hours, mer) ==
    LET isPM == ToLowerCase(mer) = "pm"
        isAM == ToLowerCase(mer) = "am"
        h1 == IF isPM /\ hours < 12 THEN hours + 12 ELSE hours
    IN  IF isAM /\ h1 = 12 THEN 0 ELSE h1

\* Number(timeParts[1]) is NaN: split(/[:\s]/) leaves the letters on the
\* minutes when they follow them without a space ("9:00pm" gives "00pm").
MinutesIsNaN(timeParts) == timeParts[4] /\ timeParts[3] # ""

\* timeParts: the hour, the minutes, the letters after the time, and whether
\* the letters follow the minutes directly.
parseDate(dateParts, timeParts, fmt) ==
    LET day == IF fmt = "YMD" THEN dateParts[3]
               ELSE IF fmt = "MDY" THEN dateParts[2] ELSE dateParts[1]
        month == IF fmt = "YMD" THEN dateParts[2]
                 ELSE IF fmt = "MDY" THEN dateParts[1] ELSE dateParts[2]
        year0 == IF fmt = "YMD" THEN dateParts[1] ELSE dateParts[3]
        year == IF year0 < 100 THEN year0 + 2000 ELSE year0
        hours == MeridiemHours(timeParts[1], timeParts[3])
    IN  IF MinutesIsNaN(timeParts)
        THEN NullDate
        ELSE NewDate(year, month - 1, day, hours, timeParts[2])

-----------------------------------------------------------------------------
(* detectDateFormat *)

ScanLimit == 50

DetectInit == [maxFirst |-> 0, maxSecond |-> 0, isYMD |-> FALSE]

\* DetectLine with the year test off by one (>= 1000).
DetectLineMut(ds, line) ==
    IF Matches(line)
    THEN LET parts == line[1].date
         IN  IF parts[1] >= 1000
             THEN [ds EXCEPT !.isYMD = TRUE]
             ELSE [ds EXCEPT !.maxFirst = IF parts[1] > @ THEN parts[1] ELSE @,
                             !.maxSecond = IF parts[2] > @ THEN parts[2] ELSE @]
    ELSE ds

\* One turn of the loop over lines.slice(0, 50).
DetectLine(ds, line) ==
    IF Matches(line)
    THEN LET parts == line[1].date
         IN  IF parts[1] > 1000
             THEN [ds EXCEPT !.isYMD = TRUE]
             ELSE [ds EXCEPT !.maxFirst = IF parts[1] > @ THEN parts[1] ELSE @,
                             !.maxSecond = IF parts[2] > @ THEN parts[2] ELSE @]
    ELSE ds

SampleWindow(ls) == SubSeq(ls, 1, IF Len(ls) < ScanLimit THEN Len(ls) ELSE ScanLimit)

\* userLocale.startsWith('en-US'), the locale kept as its subtags.
StartsWithEnUS(loc) == Len(loc) >= 2 /\ loc[1] = "en" /\ loc[2] = "US"

\* navigator.language || 'en-GB'
UserLocale(loc) == IF loc = <<>> THEN <<"en", "GB">> ELSE loc

\* DetectResult with the two tests on the maxima in the other order.
DetectResultMut(ds, loc) ==
    IF ds.isYMD THEN "YMD"
    ELSE IF ds.maxSecond > 12 THEN "MDY"
    ELSE IF ds.maxFirst > 12 THEN "DMY"
    ELSE IF StartsWithEnUS(UserLocale(loc)) THEN "MDY" ELSE "DMY"

DetectResult(ds, loc) ==
    IF ds.isYMD THEN "YMD"
    ELSE IF ds.maxFirst > 12 THEN "DMY"
    ELSE IF ds.maxSecond > 12 THEN "MDY"
    ELSE IF StartsWithEnUS(UserLocale(loc)) THEN "MDY" ELSE "DMY"

\* The loop, with its break on the first year-first date.
RECURSIVE DetectScan(_, _, _)
DetectScan(ds, win, i) ==
    IF i > Len(win) \/ ds.isYMD THEN ds
    ELSE DetectScan(DetectLine(ds, win[i]), win, i + 1)

detectDateFormat(ls, loc) == DetectResult(DetectScan(DetectInit, SampleWindow(ls), 1), loc)

-----------------------------------------------------------------------------
(* parseChatFile: the loop over the lines *)

ParserInit == [messages |-> <<>>, lastMessage |-> 0]

\* remainder.substring(0, firstColonIndex).trim()
MessageSender(remainder, ci) == Trim(SubSeq(remainder, 1, ci - 1))

\* MessageContent starting one character early, at the colon.
MessageContentMut(remainder, ci) == Trim(SubSeq(remainder, ci, Len(remainder)))

\* remainder.substring(firstColonIndex + 1).trim()
MessageContent(remainder, ci) == Trim(SubSeq(remainder, ci + 1, Len(remainder)))

\* Continue without the line break.
ContinueMut(content, line) == content \o line

\* lastMessage.content += `\n${line}`
Continue(content, line) == content \o <<NL>> \o line

\* SenderlessLast keeping the current message.
SenderlessLastMut(last) == last

\* What a timestamped line without a sender leaves in lastMessage.
SenderlessLast(last) == 0

\* lastMessage is the index in messages of the object it refers to, 0 for null.
ParseLine(ps, line, fmt) ==
    IF Matches(line)
    THEN LET remainder == Tail(line)
             date == parseDate(line[1].date, line[1].time, fmt)
         IN  IF date # NullDate
             THEN LET ci == IndexOfColon(remainder)
                  IN  IF ci # 0
                      THEN LET m == [date |-> date,
                                     sender |-> MessageSender(remainder, ci),
                                     content |-> MessageContent(remainder, ci)]
                           IN  [messages |-> Append(ps.messages, m),
                                lastMessage |-> Len(ps.messages) + 1]
                      ELSE [ps EXCEPT !.lastMessage = SenderlessLast(@)]
             ELSE ps
    ELSE IF ps.lastMessage # 0
         THEN [ps EXCEPT !.messages[ps.lastMessage].content = Continue(@, line)]
         ELSE ps

RECURSIVE ParseLines(_, _, _, _)
ParseLines(ps, ls, i, fmt) ==
    IF i > Len(ls) THEN ps ELSE ParseLines(ParseLine(ps, ls[i], fmt), ls, i + 1, fmt)

\* The whole of reader.onload, as a function of the text.
ParseText(t, loc) ==
    IF t = <<>>
    THEN [messages |-> <<>>, status |-> "error", error |-> "File is empty"]
    ELSE LET ls == SplitLines(RemoveMarks(t))
             fmt == detectDateFormat(ls, loc)
         IN  [messages |-> ParseLines(ParserInit, ls, 1, fmt).messages,
              status |-> "success", error |-> ""]

-----------------------------------------------------------------------------
(* A Map of the host, as the sequence of its entries [k, v] in insertion    *)
(* order, the order forEach, keys() and values() visit them in.            *)

MapHas(m, k) == \E i \in 1..Len(m) : m[i].k = k

MapIndex(m, k) == CHOOSE i \in 1..Len(m) : m[i].k = k

\* map.get(k) || d
MapGet(m, k, d) == IF MapHas(m, k) THEN m[MapIndex(m, k)].v ELSE d

MapSet(m, k, v) ==
    IF MapHas(m, k)
    THEN [m EXCEPT ![MapIndex(m, k)].v = v]
    ELSE Append(m, [k |-> k, v |-> v])

\* map.set(k, (map.get(k) || 0) + 1)
MapInc(m, k) == MapSet(m, k, MapGet(m, k, 0) + 1)

RECURSIVE SumValues(_)
SumValues(m) == IF m = <<>> THEN 0 ELSE m[1].v + SumValues(Tail(m))

\* The first entry with the greatest value above floor, as forEach with
\* "if (c > max) { max = c; best = k }" finds it; none when no value is above.
RECURSIVE BestFrom(_, _, _, _)
BestFrom(m, i, max, best) ==
    IF i > Len(m) THEN [max |-> max, best |-> best]
    ELSE IF m[i].v > max
         THEN BestFrom(m, i + 1, m[i].v, <<m[i].k>>)
         ELSE BestFrom(m, i + 1, max, best)

Best(m, floor) == BestFrom(m, 1, floor, <<>>)

-----------------------------------------------------------------------------
(* The text of a message: words, media and system markers, phrases.        *)

LowerLetters ==
    <<"a", "b", "c", "d", "e", "f", "g", "h", "i", "j", "k", "l", "m",
      "n", "o", "p", "q", "r", "s", "t", "u", "v", "w", "x", "y", "z">>

UpperLetters ==
    <<"A", "B", "C", "D", "E", "F", "G", "H", "I", "J", "K", "L", "M",
      "N", "O", "P", "Q", "R", "S", "T", "U", "V", "W", "X", "Y", "Z">>

Digits == {"0", "1", "2", "3", "4", "5", "6", "7", "8", "9"}

\* A character of the range \u4E00-\u9FFF and one of \p{Emoji_Presentation}.
Han == Chr("U+4E2D")
Emoji == Chr("U+1F600")

\* String.prototype.toLowerCase
LowerChar(sym) ==
    IF \E i \in 1..26 : UpperLetters[i] = sym.c
    THEN Chr(LowerLetters[CHOOSE i \in 1..26 : UpperLetters[i] = sym.c])
    ELSE sym

LowerCase(s) == [i \in 1..Len(s) |-> LowerChar(s[i])]

\* [\p{L}\p{N}\s']: what replace(/[^\p{L}\p{N}\s']/gu, '') keeps.
IsWordChar(sym) ==
    \/ \E i \in 1..26 : sym.c = LowerLetters[i] \/ sym.c = UpperLetters[i]
    \/ sym.c \in Digits
    \/ sym = Han
    \/ IsSpace(sym)
    \/ sym.c = "'"

\* split(/\s+/).filter(t => t.length > 0): the runs without white space.
RECURSIVE WordsFrom(_, _, _)
WordsFrom(s, i, cur) ==
    IF i > Len(s) THEN (IF cur = <<>> THEN <<>> ELSE <<cur>>)
    ELSE IF IsSpace(s[i])
         THEN (IF cur = <<>> THEN <<>> ELSE <<cur>>) \o WordsFrom(s, i + 1, <<>>)
         ELSE WordsFrom(s, i + 1, Append(cur, s[i]))

SplitWords(s) == WordsFrom(s, 1, <<>>)

\* String.prototype.includes
Includes(s, p) == \E i \in 1..(Len(s) - Len(p) + 1) : SubSeq(s, i, i + Len(p) - 1) = p

STOP_WORDS ==
    { Str(<<"t", "h", "e">>), Str(<<"b", "e">>), Str(<<"t", "o">>),
      Str(<<"o", "f">>), Str(<<"a", "n", "d">>), Str(<<"a">>),
      Str(<<"i", "n">>), Str(<<"t", "h", "a", "t">>),
      Str(<<"h", "a", "v", "e">>), Str(<<"i">>), Str(<<"i", "t">>),
      Str(<<"f", "o", "r">>), Str(<<"n", "o", "t">>), Str(<<"o", "n">>),
      Str(<<"w", "i", "t", "h">>), Str(<<"h", "e">>), Str(<<"a", "s">>),
      Str(<<"y", "o", "u">>), Str(<<"d", "o">>), Str(<<"a", "t">>),
      Str(<<"t", "h", "i", "s">>), Str(<<"b", "u", "t">>),
      Str(<<"h", "i", "s">>), Str(<<"b", "y">>), Str(<<"f", "r", "o", "m">>),
      Str(<<"t", "h", "e", "y">>), Str(<<"w", "e">>), Str(<<"s", "a", "y">>),
      Str(<<"h", "e", "r">>), Str(<<"s", "h", "e">>), Str(<<"o", "r">>),
      Str(<<"a", "n">>), Str(<<"w", "i", "l", "l">>), Str(<<"m", "y">>),
      Str(<<"o", "n", "e">>), Str(<<"a", "l", "l">>),
      Str(<<"w", "o", "u", "l", "d">>), Str(<<"t", "h", "e", "r", "e">>),
      Str(<<"t", "h", "e", "i", "r">>), Str(<<"w", "h", "a", "t">>),
      Str(<<"s", "o">>), Str(<<"u", "p">>), Str(<<"o", "u", "t">>),
      Str(<<"i", "f">>), Str(<<"a", "b", "o", "u", "t">>),
      Str(<<"w", "h", "o">>), Str(<<"g", "e", "t">>),
      Str(<<"w", "h", "i", "c", "h">>), Str(<<"g", "o">>), Str(<<"m", "e">>),
      Str(<<"w", "h", "e", "n">>), Str(<<"m", "a", "k", "e">>),
      Str(<<"c", "a", "n">>), Str(<<"l", "i", "k", "e">>),
      Str(<<"t", "i", "m", "e">>), Str(<<"n", "o">>),
      Str(<<"j", "u", "s", "t">>), Str(<<"h", "i", "m">>),
      Str(<<"k", "n", "o", "w">>), Str(<<"t", "a", "k", "e">>),
      Str(<<"p", "e", "o", "p", "l", "e">>), Str(<<"i", "n", "t", "o">>),
      Str(<<"y", "e", "a", "r">>), Str(<<"y", "o", "u", "r">>),
      Str(<<"g", "o", "o", "d">>), Str(<<"s", "o", "m", "e">>),
      Str(<<"c", "o", "u", "l", "d">>), Str(<<"t", "h", "e", "m">>),
      Str(<<"s", "e", "e">>), Str(<<"o", "t", "h", "e", "r">>),
      Str(<<"t", "h", "a", "n">>), Str(<<"t", "h", "e", "n">>),
      Str(<<"n", "o", "w">>), Str(<<"l", "o", "o", "k">>),
      Str(<<"o", "n", "l", "y">>), Str(<<"c", "o", "m", "e">>),
      Str(<<"i", "t", "s">>), Str(<<"o", "v", "e", "r">>),
      Str(<<"t", "h", "i", "n", "k">>), Str(<<"a", "l", "s", "o">>),
      Str(<<"b", "a", "c", "k">>), Str(<<"a", "f", "t", "e", "r">>),
      Str(<<"u", "s", "e">>), Str(<<"t", "w", "o">>), Str(<<"h", "o", "w">>),
      Str(<<"o", "u", "r">>), Str(<<"w", "o", "r", "k">>),
      Str(<<"f", "i", "r", "s", "t">>), Str(<<"w", "e", "l", "l">>),
      Str(<<"w", "a", "y">>), Str(<<"e", "v", "e", "n">>),
      Str(<<"n", "e", "w">>), Str(<<"w", "a", "n", "t">>),
      Str(<<"b", "e", "c", "a", "u", "s", "e">>), Str(<<"a", "n", "y">>),
      Str(<<"t", "h", "e", "s", "e">>), Str(<<"g", "i", "v", "e">>),
      Str(<<"d", "a", "y">>), Str(<<"m", "o", "s", "t">>), Str(<<"u", "s">>),
      Str(<<"i", "s">>), Str(<<"a", "r", "e">>), Str(<<"w", "a", "s">>),
      Str(<<"w", "e", "r", "e">>), Str(<<"h", "a", "s">>),
      Str(<<"h", "a", "d">>), Str(<<"b", "e", "e", "n">>), Str(<<"o", "k">>),
      Str(<<"o", "k", "a", "y">>), Str(<<"l", "o", "l">>),
      Str(<<"h", "a", "h", "a">>), Str(<<"y", "e", "a", "h">>),
      Str(<<"y", "e", "s">>), Str(<<"h", "e", "y">>), Str(<<"h", "i">>),
      Str(<<"h", "e", "l", "l", "o">>), Str(<<"o", "m", "g">>),
      Str(<<"d", "i", "d">>), Str(<<"d", "o", "n", "e">>),
      Str(<<"t", "o", "o">>), Str(<<"v", "e", "r", "y">>),
      Str(<<"m", "u", "c", "h">>), Str(<<"r", "e", "a", "l", "l", "y">>),
      Str(<<"g", "o", "t">>), Str(<<"d", "o", "n">>),
      Str(<<"d", "o", "n", "t">>), Str(<<"d", "i", "d", "n", "t">>),
      Str(<<"c", "a", "n", "t">>), Str(<<"c", "a", "n", "n", "o", "t">>),
      Str(<<"p", "m">>), Str(<<"a", "m">>),
      Str(<<"o", "m", "i", "t", "t", "e", "d">>),
      Str(<<"m", "e", "s", "s", "a", "g", "e">>),
      Str(<<"d", "e", "l", "e", "t", "e", "d">>),
      Str(<<"d", "e", "l", "e", "t", "e">>),
      Str(<<"e", "d", "i", "t", "e", "d">>), Str(<<"e", "d", "i", "t">>) }

MEDIA_PHRASES_BASE ==
    { Str(<<"i", "m", "a", "g", "e", " ", "o", "m", "i", "t", "t", "e", "d">>),
      Str(<<"v", "i", "d", "e", "o", " ", "o", "m", "i", "t", "t", "e", "d">>),
      Str(<<"a", "u", "d", "i", "o", " ", "o", "m", "i", "t", "t", "e", "d">>),
      Str(<<"s", "t", "i", "c", "k", "e", "r", " ", "o", "m", "i", "t", "t", "e", "d">>),
      Str(<<"g", "i", "f", " ", "o", "m", "i", "t", "t", "e", "d">>),
      Str(<<"m", "e", "d", "i", "a", " ", "o", "m", "i", "t", "t", "e", "d">>),
      Str(<<"c", "o", "n", "t", "a", "c", "t", " ", "c", "a", "r", "d", " ", "o", "m", "i", "t", "t", "e", "d">>),
      Str(<<"d", "o", "c", "u", "m", "e", "n", "t", " ", "o", "m", "i", "t", "t", "e", "d">>),
      Str(<<"n", "u", "l", "l">>) }

\* /^<.+>$/.test(contentTrimmed): '.' matches no line terminator.
IsAngleBracketMedia(contentTrimmed) ==
    /\ Len(contentTrimmed) >= 3
    /\ contentTrimmed[1] = Chr("<")
    /\ contentTrimmed[Len(contentTrimmed)] = Chr(">")
    /\ \A i \in 2..(Len(contentTrimmed) - 1) : contentTrimmed[i] \notin {NL, CR}

IsMedia(content) ==
    LET contentTrimmed == Trim(content)
        lowerContent == LowerCase(contentTrimmed)
    IN  \/ IsAngleBracketMedia(contentTrimmed)
        \/ \E phrase \in MEDIA_PHRASES_BASE : Includes(lowerContent, phrase)

\* The markers of a deleted or edited message: those looked for anywhere in
\* the content, and those the whole content is compared with.
SystemIncluded ==
    { Str(<<"t", "h", "i", "s", " ", "m", "e", "s", "s", "a", "g", "e", " ", "w", "a", "s", " ", "d", "e", "l", "e", "t", "e", "d">>),
      Str(<<"y", "o", "u", " ", "d", "e", "l", "e", "t", "e", "d", " ", "t", "h", "i", "s", " ", "m", "e", "s", "s", "a", "g", "e">>),
      Str(<<"t", "h", "i", "s", " ", "m", "e", "s", "s", "a", "g", "e", " ", "w", "a", "s", " ", "e", "d", "i", "t", "e", "d">>),
      Str(<<"w", "a", "s", " ", "e", "d", "i", "t", "e", "d">>) }

SystemWhole ==
    { Str(<<"t", "h", "i", "s", " ", "m", "e", "s", "s", "a", "g", "e", " ", "w", "a", "s", " ", "d", "e", "l", "e", "t", "e">>),
      Str(<<"t", "h", "i", "s", " ", "m", "e", "s", "s", "a", "g", "e">>) }

\* IsSystemMsg finding no marker.
IsSystemMsgMut(content) == FALSE

IsSystemMsg(content) ==
    LET lowerContent == LowerCase(Trim(content))
    IN  \/ \E phrase \in SystemIncluded : Includes(lowerContent, phrase)
        \/ lowerContent \in SystemWhole

\* msg.content.toLowerCase().replace(/[^\p{L}\p{N}\s']/gu, '') split in words.
CleanWords(content) == SplitWords(SelectSeq(LowerCase(content), IsWordChar))

\* (w.length > 2 || /[\u4E00-\u9FFF]/.test(w)) && !STOP_WORDS.has(w)
CountsAsWord(w) ==
    /\ Len(w) > 2 \/ \E i \in 1..Len(w) : w[i] = Han
    /\ w \notin STOP_WORDS

\* The bigrams of a message, in order: `${w1} ${w2}` unless both are stop words.
Bigrams(words) ==
    LET all == [i \in 1..(Len(words) - 1) |->
                    [w1 |-> words[i], w2 |-> words[i + 1]]]
        Phrases(kept) == [i \in 1..Len(kept) |-> kept[i].w1 \o <<SP>> \o kept[i].w2]
    IN  Phrases(SelectSeq(all, LAMBDA b : ~({b.w1, b.w2} \subseteq STOP_WORDS)))

-----------------------------------------------------------------------------
(* analyzeMessages: the pass over the filtered messages *)

\* FilterByYear with the test inverted.
FilterByYearMut(messages, filter) ==
    IF filter # 0
    THEN SelectSeq(messages, LAMBDA m : FullYear(m.date) # filter)
    ELSE messages

\* yearFilter ? messages.filter(m => m.date.getFullYear() === yearFilter) : messages
FilterByYear(messages, filter) ==
    IF filter # 0
    THEN SelectSeq(messages, LAMBDA m : FullYear(m.date) = filter)
    ELSE messages

\* The early return for an empty filtered list; new Date() reads the clock.
EmptyResult(clock) ==
    [totalMessages |-> 0,
     messages |-> <<>>,
     dateRange |-> [start |-> clock, end |-> clock],
     users |-> <<>>,
     activeUsersCount |-> 0,
     longestStreak |-> 0,
     mostActiveDate |-> [date |-> <<>>, count |-> 0],
     busiestHour |-> 0,
     topStarter |-> <<>>,
     timeline |-> <<>>,
     hourlyHeatmap |-> <<>>,
     yearOptions |-> <<>>,
     rapidFire |-> [maxInMinute |-> 0, maxInHour |-> 0, maxInDay |-> 0],
     dayNightSplit |-> [day |-> 0, night |-> 0],
     wordOccurrences |-> <<>>,
     dayOfWeekStats |-> [d \in 0..6 |-> 0],
     longestMessage |-> [content |-> <<>>, sender |-> <<>>, date |-> clock, wordCount |-> 0],
     burstStats |-> [count |-> 0, maxBurst |-> 0],
     mostRepeatedPhrase |-> <<>>,
     silenceBreaker |-> [name |-> <<>>, maxSilenceHours |-> 0],
     silenceBreakCounts |-> <<>>]

NewUser ==
    [count |-> 0, words |-> 0, emojis |-> <<>>, wordFreq |-> <<>>,
     replyTimes |-> <<>>, textOnlyCount |-> 0, emojiMsgCount |-> 0,
     mediaMessageCount |-> 0, shortMessageCount |-> 0, longMessageCount |-> 0,
     oneSidedCount |-> 0]

\* new Date(0): midnight of 1 January 1970 in UTC, on the clock of the host.
Epoch(off) == [day |-> off \div 86400, sec |-> off % 86400]

PassInit(off) ==
    [userMap |-> <<>>,
     wordGlobalMap |-> <<>>,
     phraseMap |-> <<>>,
     longestMsg |-> [content |-> <<>>, sender |-> <<>>, date |-> Epoch(off), wordCount |-> 0],
     hourlyCounts |-> [h \in 0..23 |-> 0],
     dayOfWeekCounts |-> [d \in 0..6 |-> 0],
     msgsPerMinute |-> <<>>,
     msgsPerHourSpecific |-> <<>>,
     dailyTotalCounts |-> <<>>,
     dailyBreakdown |-> <<>>,
     startersMap |-> <<>>,
     lastMsgTime |-> [day |-> 0, sec |-> 0],
     lastSender |-> <<>>,
     dayCount |-> 0,
     nightCount |-> 0,
     maxSilenceTime |-> 0,
     currentBurst |-> 0,
     maxBurst |-> 0,
     burstCount |-> 0]

\* "Initialize User" and uStat.count++
CountMessage(st, msg) ==
    LET u == MapGet(st.userMap, msg.sender, NewUser)
    IN  [st EXCEPT !.userMap = MapSet(@, msg.sender, [u EXCEPT !.count = @ + 1])]

\* map.set(k, (map.get(k) || 0) + 1) for every key of a list, in order.
RECURSIVE IncAll(_, _)
IncAll(m, keys) == IF keys = <<>> THEN m ELSE IncAll(MapInc(m, Head(keys)), Tail(keys))

\* wordGlobalMap[w][msg.sender]++ for every counted word.
RECURSIVE GlobalInc(_, _, _)
GlobalInc(m, ws, sender) ==
    IF ws = <<>> THEN m
    ELSE GlobalInc(MapSet(m, Head(ws), MapInc(MapGet(m, Head(ws), <<>>), sender)),
                   Tail(ws), sender)

\* pEntry.count++ and pEntry.users[msg.sender]++ for every phrase.
RECURSIVE PhraseInc(_, _, _)
PhraseInc(m, phrases, sender) ==
    IF phrases = <<>> THEN m
    ELSE LET pEntry == MapGet(m, Head(phrases), [count |-> 0, users |-> <<>>])
         IN  PhraseInc(MapSet(m, Head(phrases),
                              [count |-> pEntry.count + 1,
                               users |-> MapInc(pEntry.users, sender)]),
                       Tail(phrases), sender)

\* Media and system messages, and the text analysis of every other message;
\* the greeting counts (GM_REGEX, GN_REGEX, BYE_REGEX) are not in the model.
TextStats(st, msg) ==
    LET u == MapGet(st.userMap, msg.sender, NewUser)
    IN  IF IsMedia(msg.content)
        THEN [st EXCEPT !.userMap =
                 MapSet(@, msg.sender, [u EXCEPT !.mediaMessageCount = @ + 1])]
        ELSE IF IsSystemMsg(msg.content) THEN st
        ELSE LET wordCount == Len(SplitWords(msg.content))
                 emojiMatches == SelectSeq(msg.content, LAMBDA sym : sym = Emoji)
                 words == CleanWords(msg.content)
                 counted == SelectSeq(words, CountsAsWord)
                 u1 == [u EXCEPT
                          !.words = @ + wordCount,
                          !.shortMessageCount = IF wordCount <= 3 THEN @ + 1 ELSE @,
                          !.longMessageCount = IF wordCount >= 12 THEN @ + 1 ELSE @,
                          !.emojiMsgCount = IF emojiMatches # <<>> THEN @ + 1 ELSE @,
                          !.textOnlyCount = IF emojiMatches # <<>> THEN @ ELSE @ + 1,
                          !.emojis = IncAll(@, emojiMatches),
                          !.wordFreq = IncAll(@, counted)]
             IN  [st EXCEPT
                    !.userMap = MapSet(@, msg.sender, u1),
                    !.longestMsg =
                        IF wordCount > @.wordCount
                        THEN [content |-> msg.content, sender |-> msg.sender,
                              date |-> msg.date, wordCount |-> wordCount]
                        ELSE @,
                    !.wordGlobalMap = GlobalInc(@, counted, msg.sender),
                    !.phraseMap = PhraseInc(@, Bigrams(words), msg.sender)]

\* Burst keeping the length of every closed run as maxBurst, short runs too.
BurstMut(st, msg, index) ==
    IF index > 0
    THEN IF Diff(msg.date, st.lastMsgTime) < 60
         THEN [st EXCEPT !.currentBurst = @ + 1]
         ELSE [st EXCEPT
                 !.burstCount = IF st.currentBurst > 5 THEN @ + 1 ELSE @,
                 !.maxBurst = IF st.currentBurst > @ THEN st.currentBurst ELSE @,
                 !.currentBurst = 1]
    ELSE [st EXCEPT !.currentBurst = 1]

\* Burst Detection; index is 0-based as in forEach.
Burst(st, msg, index) ==
    IF index > 0
    THEN IF Diff(msg.date, st.lastMsgTime) < 60
         THEN [st EXCEPT !.currentBurst = @ + 1]
         ELSE [st EXCEPT
                 !.burstCount = IF st.currentBurst > 5 THEN @ + 1 ELSE @,
                 !.maxBurst = IF st.currentBurst > 5 /\ st.currentBurst > @
                              THEN st.currentBurst ELSE @,
                 !.currentBurst = 1]
    ELSE [st EXCEPT !.currentBurst = 1]

\* ReplyTime without the limit of 6 hours.
ReplyTimeMut(st, msg) ==
    IF st.lastSender # <<>> /\ st.lastSender # msg.sender
    THEN LET u == MapGet(st.userMap, msg.sender, NewUser)
         IN  [st EXCEPT !.userMap = MapSet(@, msg.sender,
                 [u EXCEPT !.replyTimes = Append(@, Diff(msg.date, st.lastMsgTime))])]
    ELSE st

\* Reply Time Logic; the times are kept in seconds (360 minutes = 21600 s).
ReplyTime(st, msg) ==
    IF st.lastSender # <<>> /\ st.lastSender # msg.sender
          /\ Diff(msg.date, st.lastMsgTime) < 21600
    THEN LET u == MapGet(st.userMap, msg.sender, NewUser)
         IN  [st EXCEPT !.userMap = MapSet(@, msg.sender,
                 [u EXCEPT !.replyTimes = Append(@, Diff(msg.date, st.lastMsgTime))])]
    ELSE st

\* Starter taking a gap of exactly 6 hours for a silence too.
StarterMut(st, msg, index) ==
    IF index = 0 \/ Diff(msg.date, st.lastMsgTime) >= 21600
    THEN [st EXCEPT
            !.startersMap = MapInc(@, msg.sender),
            !.maxSilenceTime =
                IF index > 0 /\ Diff(msg.date, st.lastMsgTime) > @
                THEN Diff(msg.date, st.lastMsgTime) ELSE @]
    ELSE st

\* Initiator / Silence Breaker Logic; maxSilenceTime is kept in seconds.
Starter(st, msg, index) ==
    IF index = 0 \/ Diff(msg.date, st.lastMsgTime) > 21600
    THEN [st EXCEPT
            !.startersMap = MapInc(@, msg.sender),
            !.maxSilenceTime =
                IF index > 0 /\ Diff(msg.date, st.lastMsgTime) > @
                THEN Diff(msg.date, st.lastMsgTime) ELSE @]
    ELSE st

\* isoString.substring(0, 13) and (0, 16): the hour and the minute in UTC.
HourKey(d, off) == DateKey(d, off) * 24 + (((d.sec - off) % 86400) \div 3600)
MinuteKey(d, off) == DateKey(d, off) * 1440 + (((d.sec - off) % 86400) \div 60)

\* Time Stats and the per-day tables.
TimeStats(st, msg, off) ==
    LET hour == Hours(msg.date)
        dateKey == DateKey(msg.date, off)
    IN  [st EXCEPT
            !.hourlyCounts[hour] = @ + 1,
            !.dayOfWeekCounts[WeekDay(msg.date)] = @ + 1,
            !.dayCount = IF hour >= 6 /\ hour < 18 THEN @ + 1 ELSE @,
            !.nightCount = IF hour >= 6 /\ hour < 18 THEN @ ELSE @ + 1,
            !.dailyTotalCounts = MapInc(@, dateKey),
            !.msgsPerHourSpecific = MapInc(@, HourKey(msg.date, off)),
            !.msgsPerMinute = MapInc(@, MinuteKey(msg.date, off)),
            !.dailyBreakdown = MapSet(@, dateKey, MapInc(MapGet(@, dateKey, <<>>), msg.sender))]

\* One call of the forEach callback.
Accumulate(st, msg, index, off) ==
    [TimeStats(
        Starter(
         ReplyTime(
          Burst(
           TextStats(
            CountMessage(st, msg),
            msg),
           msg, index),
          msg),
         msg, index),
        msg, off)
     EXCEPT !.lastMsgTime = msg.date, !.lastSender = msg.sender]

\* filteredMessages.forEach: the callback has returned, lastSender set, before
\* the next message is taken.
RECURSIVE Pass(_, _, _, _)
Pass(st, msgs, i, off) ==
    IF i > Len(msgs) THEN st
    ELSE LET Rest(next) ==
                 IF next.lastSender = msgs[i].sender
                 THEN Pass(next, msgs, i + 1, off)
                 ELSE next
         IN  Rest(Accumulate(st, msgs[i], i - 1, off))

-----------------------------------------------------------------------------
(* analyzeMessages: after the pass *)

\* Calculate One-Sided Days: one turn of userCounts.forEach for every user
\* of every day with more than 10 messages; count / totalDay > 0.75.
RECURSIVE OneSidedUsers(_, _, _, _)
OneSidedUsers(userMap, userCounts, j, totalDay) ==
    IF j > Len(userCounts) THEN userMap
    ELSE LET e == userCounts[j]
             hit == 4 * e.v > 3 * totalDay /\ MapHas(userMap, e.k)
             next == IF hit
                     THEN MapSet(userMap, e.k,
                              [MapGet(userMap, e.k, NewUser) EXCEPT !.oneSidedCount = @ + 1])
                     ELSE userMap
         IN  OneSidedUsers(next, userCounts, j + 1, totalDay)

\* OneSidedDays taking a day of 10 messages too.
RECURSIVE OneSidedDaysMut(_, _, _)
OneSidedDaysMut(userMap, breakdown, i) ==
    IF i > Len(breakdown) THEN userMap
    ELSE LET totalDay == SumValues(breakdown[i].v)
         IN  OneSidedDaysMut(IF totalDay >= 10
                             THEN OneSidedUsers(userMap, breakdown[i].v, 1, totalDay)
                             ELSE userMap,
                             breakdown, i + 1)

RECURSIVE OneSidedDays(_, _, _)
OneSidedDays(userMap, breakdown, i) ==
    IF i > Len(breakdown) THEN userMap
    ELSE LET totalDay == SumValues(breakdown[i].v)
         IN  OneSidedDays(IF totalDay > 10
                          THEN OneSidedUsers(userMap, breakdown[i].v, 1, totalDay)
                          ELSE userMap,
                          breakdown, i + 1)

\* Array.prototype.sort with (a, b) => count(b) - count(a): stable, so
\* entries with equal counts keep their insertion order.
\* InsertByCount putting the smaller count first.
RECURSIVE InsertByCountMut(_, _)
InsertByCountMut(sorted, e) ==
    IF sorted = <<>> THEN <<e>>
    ELSE IF Head(sorted).v.count <= e.v.count
         THEN <<Head(sorted)>> \o InsertByCountMut(Tail(sorted), e)
         ELSE <<e>> \o sorted

RECURSIVE InsertByCount(_, _)
InsertByCount(sorted, e) ==
    IF sorted = <<>> THEN <<e>>
    ELSE IF Head(sorted).v.count >= e.v.count
         THEN <<Head(sorted)>> \o InsertByCount(Tail(sorted), e)
         ELSE <<e>> \o sorted

RECURSIVE SortByCount(_)
SortByCount(m) ==
    IF m = <<>> THEN <<>>
    ELSE InsertByCount(SortByCount(SubSeq(m, 1, Len(m) - 1)), m[Len(m)])

RECURSIVE SumSeq(_)
SumSeq(q) == IF q = <<>> THEN 0 ELSE Head(q) + SumSeq(Tail(q))

\* Math.round of the mean of the reply times in minutes (times in seconds):
\* floor(sum / (60 n) + 1/2).
AvgReplyMinutes(replyTimes) ==
    IF Len(replyTimes) > 0
    THEN (2 * SumSeq(replyTimes) + 60 * Len(replyTimes)) \div (120 * Len(replyTimes))
    ELSE 0

\* entries().sort((a, b) => b[1] - a[1]).slice(0, 3): stable, greatest first.
RECURSIVE InsertByValue(_, _)
InsertByValue(sorted, e) ==
    IF sorted = <<>> THEN <<e>>
    ELSE IF Head(sorted).v >= e.v
         THEN <<Head(sorted)>> \o InsertByValue(Tail(sorted), e)
         ELSE <<e>> \o sorted

RECURSIVE SortByValue(_)
SortByValue(m) ==
    IF m = <<>> THEN <<>>
    ELSE InsertByValue(SortByValue(SubSeq(m, 1, Len(m) - 1)), m[Len(m)])

TopThree(m) ==
    LET sorted == SortByValue(m)
    IN  SubSeq(sorted, 1, IF Len(sorted) < 3 THEN Len(sorted) ELSE 3)

\* Math.round(words / (count - mediaMessageCount)) when there are words.
AvgLength(stats) ==
    IF stats.words > 0
    THEN LET n == stats.count - stats.mediaMessageCount
         IN  (2 * stats.words + n) \div (2 * n)
    ELSE 0

\* Finalize Users
UserStats(userMap) ==
    LET sorted == SortByCount(userMap)
    IN  [i \in 1..Len(sorted) |->
            LET stats == sorted[i].v
            IN  [name |-> sorted[i].k,
                 messageCount |-> stats.count,
                 wordCount |-> stats.words,
                 avgLength |-> AvgLength(stats),
                 emojis |-> TopThree(stats.emojis),
                 color |-> (i - 1) % 12,
                 topWords |-> TopThree(stats.wordFreq),
                 avgReplyTimeMinutes |-> AvgReplyMinutes(stats.replyTimes),
                 textMessageCount |-> stats.textOnlyCount,
                 emojiMessageCount |-> stats.emojiMsgCount,
                 mediaMessageCount |-> stats.mediaMessageCount,
                 shortMessageCount |-> stats.shortMessageCount,
                 longMessageCount |-> stats.longMessageCount,
                 oneSidedConversationsCount |-> stats.oneSidedCount]]

\* TopPhraseFrom taking a later phrase whose count equals the greatest so far.
RECURSIVE TopPhraseFromMut(_, _, _, _)
TopPhraseFromMut(m, i, maxPhraseCount, topPhrase) ==
    IF i > Len(m) THEN topPhrase
    ELSE IF m[i].v.count >= maxPhraseCount /\ m[i].v.count > 3
         THEN LET topUser == Best(m[i].v.users, 0).best
              IN  TopPhraseFromMut(m, i + 1, m[i].v.count,
                      [phrase |-> m[i].k, count |-> m[i].v.count,
                       topUser |-> IF topUser = <<>> THEN <<>> ELSE topUser[1]])
         ELSE TopPhraseFromMut(m, i + 1, maxPhraseCount, topPhrase)

\* Find Top Phrase: the first phrase with the greatest count above 3, with
\* the first of its users who wrote it most; <<>> is null.
RECURSIVE TopPhraseFrom(_, _, _, _)
TopPhraseFrom(m, i, maxPhraseCount, topPhrase) ==
    IF i > Len(m) THEN topPhrase
    ELSE IF m[i].v.count > maxPhraseCount /\ m[i].v.count > 3
         THEN LET topUser == Best(m[i].v.users, 0).best
              IN  TopPhraseFrom(m, i + 1, m[i].v.count,
                      [phrase |-> m[i].k, count |-> m[i].v.count,
                       topUser |-> IF topUser = <<>> THEN <<>> ELSE topUser[1]])
         ELSE TopPhraseFrom(m, i + 1, maxPhraseCount, topPhrase)

TopPhrase(phraseMap) == TopPhraseFrom(phraseMap, 1, 0, <<>>)

\* Array.from(dailyTotalCounts.keys()).sort()
SortedKeys(m) == SortSeq([i \in 1..Len(m) |-> m[i].k], LAMBDA a, b : a < b)

\* Streak: diff is a whole number of days, and "diff <= 1.5" compares it
\* with one and a half.
RECURSIVE StreakFrom(_, _, _, _)
StreakFrom(keys, i, current, max) ==
    IF i > Len(keys) THEN max
    ELSE LET diff == IF keys[i] >= keys[i - 1] THEN keys[i] - keys[i - 1]
                     ELSE keys[i - 1] - keys[i]
             cur == IF 2 * diff <= 3 THEN current + 1 ELSE 1
         IN  StreakFrom(keys, i + 1, cur, IF cur > max THEN cur ELSE max)

LongestStreak(keys) == IF keys = <<>> THEN 0 ELSE StreakFrom(keys, 2, 1, 1)

\* users[0]?.name || '-', then the first sender with the most starts.
TopStarter(users, startersMap) ==
    LET first == IF users # <<>> /\ users[1].name # <<>> THEN users[1].name ELSE Str(<<"-">>)
        best == Best(startersMap, -1)
    IN  IF best.best = <<>> THEN first ELSE best.best[1]

\* The first hour with the greatest count above 0, else 0.
RECURSIVE BusiestFrom(_, _, _, _)
BusiestFrom(counts, h, max, best) ==
    IF h > 23 THEN best
    ELSE IF counts[h] > max
         THEN BusiestFrom(counts, h + 1, counts[h], h)
         ELSE BusiestFrom(counts, h + 1, max, best)

BusiestHour(counts) == BusiestFrom(counts, 0, 0, 0)

\* Array.from(years).sort().reverse(): four-digit years, greatest first.
RECURSIVE Descending(_)
Descending(set) ==
    IF set = {} THEN <<>>
    ELSE LET top == CHOOSE y \in set : \A z \in set : z <= y
         IN  <<top>> \o Descending(set \ {top})

\* YearOptions from the year of the first message only.
YearOptionsMut(messages) == <<FullYear(messages[1].date)>>

YearOptions(messages) == Descending({FullYear(messages[i].date) : i \in 1..Len(messages)})

\* RoundHours rounding down.
RoundHoursMut(seconds) == seconds \div 3600

\* Math.round(maxSilenceTime), the silence kept in seconds.
RoundHours(seconds) == (seconds + 1800) \div 3600

\* The result of a non-empty filtered list; wordOccurrences keeps the words
\* and senders in the order they were first seen.
FullResult(messages, filtered, off) ==
    LET Result(st, users, daily, topStarter) ==
            [totalMessages |-> Len(filtered),
             messages |-> filtered,
             dateRange |-> [start |-> filtered[1].date, end |-> filtered[Len(filtered)].date],
             users |-> users,
             activeUsersCount |-> Len(users),
             longestStreak |-> LongestStreak(SortedKeys(st.dailyTotalCounts)),
             mostActiveDate |-> [date |-> daily.best, count |-> daily.max],
             busiestHour |-> BusiestHour(st.hourlyCounts),
             topStarter |-> topStarter,
             timeline |-> <<>>,
             hourlyHeatmap |-> [h \in 1..24 |-> [hour |-> h - 1, count |-> st.hourlyCounts[h - 1]]],
             yearOptions |-> YearOptions(messages),
             rapidFire |-> [maxInMinute |-> Best(st.msgsPerMinute, 0).max,
                            maxInHour |-> Best(st.msgsPerHourSpecific, 0).max,
                            maxInDay |-> daily.max],
             dayNightSplit |-> [day |-> st.dayCount, night |-> st.nightCount],
             wordOccurrences |-> st.wordGlobalMap,
             dayOfWeekStats |-> st.dayOfWeekCounts,
             longestMessage |-> st.longestMsg,
             burstStats |-> [count |-> st.burstCount, maxBurst |-> st.maxBurst],
             mostRepeatedPhrase |-> TopPhrase(st.phraseMap),
             silenceBreaker |-> [name |-> topStarter,
                                 maxSilenceHours |-> RoundHours(st.maxSilenceTime)],
             silenceBreakCounts |-> st.startersMap]
        Finalize(st, users) ==
            Result(st, users, Best(st.dailyTotalCounts, 0), TopStarter(users, st.startersMap))
        AfterPass(st) ==
            Finalize(st, UserStats(OneSidedDays(st.userMap, st.dailyBreakdown, 1)))
    IN  AfterPass(Pass(PassInit(off), filtered, 1, off))

analyzeMessages(messages, filter, clock, off) ==
    LET filtered == FilterByYear(messages, filter)
    IN  IF Len(filtered) = 0 THEN EmptyResult(clock) ELSE FullResult(messages, filtered, off)

-----------------------------------------------------------------------------
(* The inputs of the parser. *)

tA == Ts(<<12, 5, 23>>, <<9, 0, "", FALSE>>)
tD == Ts(<<32, 1, 23>>, <<9, 1, "", FALSE>>)
tG == Ts(<<12, 5, 23>>, <<9, 5, "pm", TRUE>>)

\* The lines a file of the model is made of: message lines, a timestamped
\* line without a sender, a line dated day 32, plain lines, a line of a
\* file with "\r\n" line ends and one with "\r\r\n".
ParseShapes ==
    { <<tA>> \o Str(<<"a", ":", " ", "b">>),
      <<LRM, tA>> \o Str(<<"b", ":", "c", " ", ":">>),
      <<tA>> \o Str(<<" ", "c">>),
      <<tD>> \o Str(<<"a", ":", "b">>),
      Str(<<" ", "c", " ">>),
      <<>>,
      Str(<<"a", ":", "b">>) \o <<CR>>,
      Str(<<"c">>) \o <<CR, CR>>,
      <<tA, Colon>>,
      <<tG>> \o Str(<<"a", ":", "b">>),
      <<tG>> \o Str(<<" ", "c">>) }

RECURSIVE JoinLines(_)
JoinLines(ls) ==
    IF ls = <<>> THEN <<>>
    ELSE IF Len(ls) = 1 THEN ls[1]
    ELSE ls[1] \o <<NL>> \o JoinLines(Tail(ls))

Files == UNION {[1..n -> ParseShapes] : n \in 0..MaxLines}

Texts == {JoinLines(f) : f \in Files}

ParseLocales == {<<"en", "US">>, <<"en", "GB">>}

\* The date tokens detectDateFormat is given: an ambiguous one, day-first,
\* month-first, year-first, a first component of exactly 1000, and a line
\* that is no message.
tM == Ts(<<5, 13, 23>>, <<9, 0, "", FALSE>>)
tY == Ts(<<2023, 5, 12>>, <<9, 0, "", FALSE>>)
tK == Ts(<<1000, 5, 23>>, <<9, 0, "", FALSE>>)

SampleShapes == { <<tA>>, <<tD>>, <<tM>>, <<tY>>, <<tK>>, Str(<<"c">>) }

Samples == UNION {[1..n -> SampleShapes] : n \in 0..MaxSample}

DetectLocales == {<<>>, <<"en", "US">>, <<"fr", "FR">>}

-----------------------------------------------------------------------------
(* State that a specification does not use. *)

NoParse ==
    /\ text = <<>>
    /\ lineNo = 0
    /\ parser = ParserInit
    /\ result = [messages |-> <<>>, status |-> "", error |-> ""]

NoDetect ==
    /\ scan = 0
    /\ detect = DetectInit

NoAnalyze ==
    /\ chat = <<>>
    /\ yearFilter = 0
    /\ tz = 0
    /\ now = [day |-> 0, sec |-> 0]
    /\ calls = <<>>

NoTime ==
    /\ stamp = <<>>
    /\ parsed = NullDate

\* App before a file is loaded: useState('upload'); no StoryView is mounted.
NoApp ==
    /\ viewState = "upload"
    /\ slides = <<>>

-----------------------------------------------------------------------------
(* parseChatFile *)

InitParse ==
    /\ pc = "reading"
    /\ text \in Texts
    /\ locale \in ParseLocales
    /\ lines = <<>>
    /\ dateFormat = ""
    /\ lineNo = 0
    /\ parser = ParserInit
    /\ result = [messages |-> <<>>, status |-> "", error |-> ""]
    /\ NoDetect
    /\ NoAnalyze
    /\ NoTime
    /\ NoApp

\* reader.onload with an empty text.
OnLoadEmpty ==
    /\ pc = "reading"
    /\ text = <<>>
    /\ result' = [messages |-> <<>>, status |-> "error", error |-> "File is empty"]
    /\ pc' = "done"
    /\ UNCHANGED <<text, locale, lines, scan, detect, dateFormat, lineNo, parser>>
    /\ UNCHANGED <<analyzeVars, timeVars, appVars>>

\* reader.onload up to the loop: clean, split, detect the date order.
OnLoad ==
    /\ pc = "reading"
    /\ text # <<>>
    /\ lines' = SplitLines(RemoveMarks(text))
    /\ dateFormat' = detectDateFormat(lines', locale)
    /\ parser' = ParserInit
    /\ lineNo' = 0
    /\ pc' = "loop"
    /\ UNCHANGED <<text, locale, scan, detect, result>>
    /\ UNCHANGED <<analyzeVars, timeVars, appVars>>

\* One turn of the loop "for (const line of lines)".
ParseStep ==
    /\ pc = "loop"
    /\ lineNo < Len(lines)
    /\ parser' = ParseLine(parser, lines[lineNo + 1], dateFormat)
    /\ lineNo' = lineNo + 1
    /\ UNCHANGED <<pc, text, locale, lines, scan, detect, dateFormat, result>>
    /\ UNCHANGED <<analyzeVars, timeVars, appVars>>

\* SuccessResult reporting a file without messages as an error.
SuccessResultMut(ps) ==
    IF ps.messages = <<>>
    THEN [messages |-> <<>>, status |-> "error", error |-> "No messages found"]
    ELSE [messages |-> ps.messages, status |-> "success", error |-> ""]

\* resolve({ messages, status: 'success' })
SuccessResult(ps) == [messages |-> ps.messages, status |-> "success", error |-> ""]

Resolve ==
    /\ pc = "loop"
    /\ lineNo = Len(lines)
    /\ result' = SuccessResult(parser)
    /\ pc' = "done"
    /\ UNCHANGED <<text, locale, lines, scan, detect, dateFormat, lineNo, parser>>
    /\ UNCHANGED <<analyzeVars, timeVars, appVars>>

\* reader.onerror
OnError ==
    /\ pc = "reading"
    /\ result' = [messages |-> <<>>, status |-> "error", error |-> "Failed to read file"]
    /\ pc' = "failed"
    /\ UNCHANGED <<text, locale, lines, scan, detect, dateFormat, lineNo, parser>>
    /\ UNCHANGED <<analyzeVars, timeVars, appVars>>

NextParse == OnLoadEmpty \/ OnLoad \/ ParseStep \/ Resolve \/ OnError

SpecParse == InitParse /\ [][NextParse]_vars

-----------------------------------------------------------------------------
(* detectDateFormat, one line of the window at a time *)

InitDetect ==
    /\ pc = "detect"
    /\ lines \in Samples
    /\ locale \in DetectLocales
    /\ scan = 0
    /\ detect = DetectInit
    /\ dateFormat = ""
    /\ NoParse
    /\ NoAnalyze
    /\ NoTime
    /\ NoApp

DetectTurn ==
    /\ pc = "detect"
    /\ scan < Len(SampleWindow(lines))
    /\ ~detect.isYMD
    /\ detect' = DetectLine(detect, lines[scan + 1])
    /\ scan' = scan + 1
    /\ UNCHANGED <<pc, text, locale, lines, dateFormat, lineNo, parser, result>>
    /\ UNCHANGED <<analyzeVars, timeVars, appVars>>

DetectReturn ==
    /\ pc = "detect"
    /\ scan = Len(SampleWindow(lines)) \/ detect.isYMD
    /\ dateFormat' = DetectResult(detect, locale)
    /\ pc' = "done"
    /\ UNCHANGED <<text, locale, lines, scan, detect, lineNo, parser, result>>
    /\ UNCHANGED <<analyzeVars, timeVars, appVars>>

NextDetect == DetectTurn \/ DetectReturn

SpecDetect == InitDetect /\ [][NextDetect]_vars

-----------------------------------------------------------------------------
(* analyzeMessages, called twice on the same list and filter *)

Alice == Str(<<"A">>)
Bob == Str(<<"B">>)

\* The senders and the timestamps of the messages of the model: late on
\* 31 December 2023, twice on 1 January 2024, once on 3 January 2024.
Senders == {Alice, Bob}

Times ==
    { NewDate(2023, 11, 31, 23, 30),
      NewDate(2024, 0, 1, 1, 0),
      NewDate(2024, 0, 1, 10, 0),
      NewDate(2024, 0, 3, 10, 0) }

Messages == {[date |-> t, sender |-> u, content |-> Str(<<"h", "i">>)] : t \in Times, u \in Senders}

Chats == UNION {[1..n -> Messages] : n \in 0..MaxMessages}

\* No filter, a year with messages, a year without.
Filters == {0, 2024, 2025}

\* The host is on UTC or five and a half hours east of it.
Offsets == {0, 19800}

Clock == <<NewDate(2026, 0, 1, 12, 0), NewDate(2026, 0, 1, 12, 1)>>

InitAnalyze ==
    /\ pc = "idle"
    /\ chat \in Chats
    /\ yearFilter \in Filters
    /\ tz \in Offsets
    /\ now = Clock[1]
    /\ calls = <<>>
    /\ lines = <<>>
    /\ locale = <<>>
    /\ dateFormat = ""
    /\ NoParse
    /\ NoDetect
    /\ NoTime
    /\ NoApp

\* A call of analyzeMessages(chat, yearFilter).
Analyze ==
    /\ pc = "idle"
    /\ calls' = Append(calls, analyzeMessages(chat, yearFilter, now, tz))
    /\ pc' = IF Len(calls) = 1 THEN "done" ELSE "idle"
    /\ UNCHANGED <<chat, yearFilter, tz, now>>
    /\ UNCHANGED <<parseVars, timeVars, appVars>>

\* Time passes on the host.
Tick ==
    /\ now = Clock[1]
    /\ now' = Clock[2]
    /\ UNCHANGED <<pc, chat, yearFilter, tz, calls>>
    /\ UNCHANGED <<parseVars, timeVars, appVars>>

NextAnalyze == Analyze \/ Tick

SpecAnalyze == InitAnalyze /\ [][NextAnalyze]_vars

-----------------------------------------------------------------------------
(* parseDate on one date and time *)

MaxHour == 24

\* The letters TIMESTAMP_PATTERN may capture after the time.
Markers == {"", "AM", "PM", "am", "pm", "Pm", "a", "p", "h"}

\* 12/5/23 at every hour, on the hour and a minute before the next, with
\* the letters after a space or directly after the minutes.
Stamps ==
    {[date |-> <<12, 5, 23>>, time |-> <<h, m, mer, glued>>, fmt |-> "DMY"] :
        h \in 0..MaxHour, m \in {0, 59}, mer \in Markers, glued \in BOOLEAN}

InitTime ==
    /\ pc = "time"
    /\ stamp \in Stamps
    /\ parsed = NullDate
    /\ lines = <<>>
    /\ locale = <<>>
    /\ dateFormat = ""
    /\ NoParse
    /\ NoDetect
    /\ NoAnalyze
    /\ NoApp

\* A call of parseDate(dateStr, timeStr, dateFormat).
ParseDate ==
    /\ pc = "time"
    /\ parsed' = parseDate(stamp.date, stamp.time, stamp.fmt)
    /\ pc' = "done"
    /\ UNCHANGED <<stamp, parseVars, analyzeVars, appVars>>

NextTime == ParseDate

SpecTime == InitTime /\ [][NextTime]_vars

-----------------------------------------------------------------------------
(* analyzeMessages on a conversation: one message after another, the       *)
(* senders taking turns, each a chosen number of seconds after the last.   *)

MaxThread == 6

\* The Date s seconds after d.
AddSeconds(d, s) ==
    [day |-> d.day + ((d.sec + s) \div 86400), sec |-> (d.sec + s) % 86400]

\* Ten seconds, one minute, six hours, a second more, six and a half hours.
Gaps == {10, 60, 21600, 21601, 23400}

Other(u) == IF u = Alice THEN Bob ELSE Alice

ThreadStart == NewDate(2024, 0, 1, 9, 0)

RECURSIVE Thread(_, _, _)
Thread(t, u, gaps) ==
    <<[date |-> t, sender |-> u, content |-> Str(<<"h", "i">>)]>>
    \o (IF gaps = <<>> THEN <<>>
        ELSE Thread(AddSeconds(t, Head(gaps)), Other(u), Tail(gaps)))

\* Alice writes first.
Threads ==
    {Thread(ThreadStart, Alice, g) : g \in UNION {[1..n -> Gaps] : n \in 0..(MaxThread - 1)}}

InitThread ==
    /\ pc = "idle"
    /\ chat \in Threads
    /\ yearFilter = 0
    /\ tz = 0
    /\ now = Clock[1]
    /\ calls = <<>>
    /\ lines = <<>>
    /\ locale = <<>>
    /\ dateFormat = ""
    /\ NoParse
    /\ NoDetect
    /\ NoTime
    /\ NoApp

SpecThread == InitThread /\ [][Analyze]_vars

-----------------------------------------------------------------------------
(* analyzeMessages on busy days: at each of three times Alice sends a run  *)
(* of messages and Bob a few after her.                                    *)

MaxOthers == 3

\* 01:00 and 10:00 on 1 January 2024, 10:00 on 2 January 2024.
DayTimes ==
    <<NewDate(2024, 0, 1, 1, 0), NewDate(2024, 0, 1, 10, 0), NewDate(2024, 0, 2, 10, 0)>>

AliceRuns == {0, 8, 9}
BobRuns == 0..MaxOthers

Run(u, t, n) == [i \in 1..n |-> [date |-> t, sender |-> u, content |-> Str(<<"h", "i">>)]]

Slot(t, a, b) == Run(Alice, t, a) \o Run(Bob, t, b)

DayChats ==
    {Slot(DayTimes[1], a[1], b[1]) \o Slot(DayTimes[2], a[2], b[2])
        \o Slot(DayTimes[3], a[3], b[3]) :
        a \in [1..3 -> AliceRuns], b \in [1..3 -> BobRuns]}

InitDays ==
    /\ pc = "idle"
    /\ chat \in DayChats
    /\ yearFilter = 0
    /\ tz \in Offsets
    /\ now = Clock[1]
    /\ calls = <<>>
    /\ lines = <<>>
    /\ locale = <<>>
    /\ dateFormat = ""
    /\ NoParse
    /\ NoDetect
    /\ NoTime
    /\ NoApp

SpecDays == InitDays /\ [][Analyze]_vars

-----------------------------------------------------------------------------
(* analyzeMessages on messages of several kinds of content.                *)

MaxTexts == 3

\* '<Media omitted>', 'This message was deleted', 'the cat sat',
\* 'ha ha ha', 'yo yo yo yo yo', and 'wow' followed by an emoji.
Contents ==
    << Str(<<"<", "M", "e", "d", "i", "a", " ", "o", "m", "i", "t", "t", "e", "d", ">">>),
       Str(<<"T", "h", "i", "s", " ", "m", "e", "s", "s", "a", "g", "e", " ", "w", "a", "s", " ", "d", "e", "l", "e", "t", "e", "d">>),
       Str(<<"t", "h", "e", " ", "c", "a", "t", " ", "s", "a", "t">>),
       Str(<<"h", "a", " ", "h", "a", " ", "h", "a">>),
       Str(<<"y", "o", " ", "y", "o", " ", "y", "o", " ", "y", "o", " ", "y", "o">>),
       Str(<<"w", "o", "w", " ">>) \o <<Emoji>> >>

InitText ==
    /\ pc = "idle"
    /\ chat \in UNION {[1..n -> {[date |-> ThreadStart, sender |-> u, content |-> Contents[k]] :
                                    u \in Senders, k \in 1..Len(Contents)}] :
                        n \in 0..MaxTexts}
    /\ yearFilter = 0
    /\ tz = 0
    /\ now = Clock[1]
    /\ calls = <<>>
    /\ lines = <<>>
    /\ locale = <<>>
    /\ dateFormat = ""
    /\ NoParse
    /\ NoDetect
    /\ NoTime
    /\ NoApp

SpecText == InitText /\ [][Analyze]_vars

-----------------------------------------------------------------------------
(* App: a text file is loaded, parsed, analysed and shown by StoryView.    *)

\* StoryView: the slide list its useMemo builds from a result with a user.
Slides(data) ==
    LET When(cond, names) == IF cond THEN names ELSE <<>>
        second == IF Len(data.users) >= 2 THEN data.users[2].avgReplyTimeMinutes ELSE 0
        diff == data.users[1].avgReplyTimeMinutes - second
    IN  <<"INTRO", "TOTAL">>
        \o When(data.longestStreak >= 2, <<"STREAKS">>)
        \o When(data.silenceBreaker.maxSilenceHours > 1,
                <<"SILENCE_DURATION">>
                \o When(Len(data.silenceBreakCounts) > 0, <<"SILENCE_LEADERBOARD">>))
        \o <<"ACTIVE_GRAPH", "PEAK_HOUR", "WEEKLY">>
        \o When(\E i \in 1..Len(data.users) : data.users[i].mediaMessageCount > 0,
                <<"MEDIA">>)
        \o When(data.burstStats.count > 0, <<"RAPID_FIRE">>)
        \o <<"VOLUME">>
        \o (IF \E i \in 1..Len(data.users) : data.users[i].oneSidedConversationsCount > 0
            THEN <<"ONE_SIDED">> ELSE <<"BALANCE">>)
        \o When(data.longestMessage.wordCount > 20, <<"ESSAYIST">>)
        \o When(\E i \in 1..Len(data.users) : Len(data.users[i].topWords) >= 3,
                <<"VOCAB">>)
        \o When(data.mostRepeatedPhrase # <<>> /\ data.mostRepeatedPhrase.count > 3,
                <<"REPEAT">>)
        \o <<"SILENCE_BREAKER">>
        \o When(diff > 1 \/ diff < -1, <<"SPEED">>)
        \o <<"STYLES", "FINAL">>

\* handleFileUpload after "await parseChatFile(fileToParse)", for a text file.
Uploaded ==
    /\ pc \in {"done", "failed"}
    /\ IF result.status = "success"
       THEN /\ chat' = result.messages
            /\ yearFilter' = IF Len(result.messages) > 0
                              THEN FullYear(result.messages[Len(result.messages)].date)
                              ELSE yearFilter
            /\ viewState' = "story"
            /\ pc' = "render"
       ELSE /\ pc' = "alert"
            /\ UNCHANGED <<chat, yearFilter, viewState>>
    /\ UNCHANGED <<tz, now, calls, slides, parseVars, timeVars>>

\* The render of App in the story view: analyticsData, then StoryView, whose
\* useMemo reads data.users[0].avgReplyTimeMinutes and throws a TypeError
\* when users is empty.
RenderStory ==
    /\ pc = "render"
    /\ viewState = "story"
    /\ LET Render(data) ==
               /\ calls' = Append(calls, data)
               /\ IF data.users = <<>>
                  THEN pc' = "TypeError" /\ slides' = <<>>
                  ELSE pc' = "shown" /\ slides' = Slides(data)
       IN  Render(analyzeMessages(chat, yearFilter, now, tz))
    /\ UNCHANGED <<chat, yearFilter, tz, now, viewState, parseVars, timeVars>>

NextApp == NextParse \/ Uploaded \/ RenderStory

SpecApp == InitParse /\ [][NextApp]_vars

-----------------------------------------------------------------------------
(* Claims about parseChatFile (SpecParse). *)

\* The line the next turn of the loop consumes.
CurrentLine == lines[lineNo + 1]

\* One turn of the loop is taken.
Turn == pc = "loop" /\ lineNo' = lineNo + 1

HasSender(line) == Matches(line) /\ IndexOfColon(Tail(line)) # 0

\* The line emits a message: a timestamp prefix that parseDate turns into a
\* Date, and a ':' after it.
EmitsMessage(line) ==
    /\ HasSender(line)
    /\ parseDate(line[1].date, line[1].time, dateFormat) # NullDate

\* Line i comes after a line that emitted a message, with no timestamped
\* line without a sender in between.
FollowsMessageLine(ls, i) ==
    \E j \in 1..(i - 1) :
        /\ EmitsMessage(ls[j])
        /\ \A k \in (j + 1)..(i - 1) : ~Matches(ls[k]) \/ HasSender(ls[k])

\* The line has a timestamp prefix that parseDate turns into a Date, and no
\* ':' after it.
Senderless(line) ==
    /\ Matches(line)
    /\ ~HasSender(line)
    /\ parseDate(line[1].date, line[1].time, dateFormat) # NullDate

\* Line i comes after a timestamped line without a sender, with no line that
\* emits a message in between.
FollowsSenderlessLine(ls, i) ==
    \E j \in 1..(i - 1) :
        /\ Senderless(ls[j])
        /\ \A k \in (j + 1)..(i - 1) : ~EmitsMessage(ls[k])

\* messages with line appended, after a line break, to its last message.
AppendedToLast(msgs, line) ==
    [msgs EXCEPT ![Len(msgs)].content = @ \o <<NL>> \o line]

HasNL(content) == \E i \in 1..Len(content) : content[i] = NL

\* C1: a line without a timestamp prefix that follows a message line (no
\* timestamped line without a sender in between) is appended, after a line
\* break, to the content of the most recently emitted message, and changes
\* nothing else.
C1_ContinuationAppended ==
    [][(Turn /\ ~Matches(CurrentLine) /\ FollowsMessageLine(lines, lineNo + 1))
         => /\ parser.messages # <<>>
            /\ parser'.messages = AppendedToLast(parser.messages, CurrentLine)]_vars

\* C1's case: 'a: b' then the plain line ' c ' gives one message 'b\n c '.
C1_Witness ==
    /\ pc = "done"
    /\ lines = << <<tA>> \o Str(<<"a", ":", " ", "b">>), Str(<<" ", "c", " ">>) >>
    /\ Len(result.messages) = 1
    /\ result.messages[1].sender = Str(<<"a">>)
    /\ result.messages[1].content = Str(<<"b", "\n", " ", "c", " ">>)

ValidCalendarDate(tok, fmt) ==
    LET d == IF fmt = "YMD" THEN tok.date[3]
             ELSE IF fmt = "MDY" THEN tok.date[2] ELSE tok.date[1]
        m == IF fmt = "YMD" THEN tok.date[2]
             ELSE IF fmt = "MDY" THEN tok.date[1] ELSE tok.date[2]
        y0 == IF fmt = "YMD" THEN tok.date[1] ELSE tok.date[3]
        y == IF y0 < 100 THEN y0 + 2000 ELSE y0
    IN  /\ m \in 1..12
        /\ d >= 1
        /\ d <= MakeDay(y, m, 1) - MakeDay(y, m - 1, 1)
        /\ tok.time[1] <= 23
        /\ tok.time[2] <= 59

\* C3: a timestamped line whose date is no day of the calendar (day 32)
\* emits no message and is appended to the current message, when there is
\* one, like a line without a timestamp.
C3_InvalidDateIsContinuation ==
    [][(Turn /\ Matches(CurrentLine) /\ ~ValidCalendarDate(CurrentLine[1], dateFormat))
         => parser'.messages =
                IF parser.lastMessage # 0
                THEN AppendedToLast(parser.messages, CurrentLine)
                ELSE parser.messages]_vars

\* C4: the result is an error only for an empty text or a failed read;
\* every other text gives success with the messages of the loop.
C4_ErrorOnlyForEmptyOrUnreadable ==
    /\ pc = "failed" => result.status = "error"
    /\ pc = "done" =>
          /\ result.status = "error" <=> text = <<>>
          /\ text # <<>> => /\ result.status = "success"
                            /\ result.error = ""
                            /\ result.messages = parser.messages

\* C4's case: a text of three lines, one of them timestamped, none a
\* message: success with no messages.
C4_Witness ==
    /\ pc = "done"
    /\ Len(lines) = 3
    /\ \E i \in 1..3 : Matches(lines[i])
    /\ \E i \in 1..3 : ~Matches(lines[i]) /\ lines[i] # <<>>
    /\ result.status = "success"
    /\ result.messages = <<>>

\* The day of the month, month and year of a Date.
CivilOf(d) ==
    LET y == FullYear(d)
        m == CHOOSE mm \in 1..12 :
                MakeDay(y, mm - 1, 1) <= d.day /\ d.day < MakeDay(y, mm, 1)
    IN  <<d.day - MakeDay(y, m - 1, 1) + 1, m, y>>

\* A message written back: a timestamp prefix (day/month/year, 24 hours),
\* the sender, ':' and the content.
Serialize(m) ==
    <<Ts(CivilOf(m.date), <<m.date.sec \div 3600, (m.date.sec % 3600) \div 60, "", FALSE>>)>>
        \o m.sender \o <<Colon>> \o m.content

RoundTrips(m, loc) ==
    LET r == ParseText(Serialize(m), loc)
    IN  /\ r.status = "success"
        /\ Len(r.messages) = 1
        /\ r.messages[1].content = m.content

\* C5 as stated: a parsed message whose content holds line breaks, written
\* back and parsed again, gives a single message with the same content.
C5_RoundTrip ==
    pc = "done" =>
        \A i \in 1..Len(result.messages) :
            HasNL(result.messages[i].content) => RoundTrips(result.messages[i], locale)

\* A carriage return right before a line break.
HasCRNL(content) ==
    \E i \in 1..(Len(content) - 1) : content[i] = CR /\ content[i + 1] = NL

\* C5 amended: the same, for a content with no carriage return right before
\* a line break.
C5_RoundTripNoCRNL ==
    pc = "done" =>
        \A i \in 1..Len(result.messages) :
            (HasNL(result.messages[i].content) /\ ~HasCRNL(result.messages[i].content))
                => RoundTrips(result.messages[i], locale)

\* C5's case: two messages, one with a continuation line that has spaces at
\* both ends, and it round-trips.
C5_Witness ==
    /\ pc = "done"
    /\ Len(result.messages) = 2
    /\ \E i \in 1..2 :
          /\ result.messages[i].content = Str(<<"c", " ", ":", "\n", " ", "c", " ">>)
          /\ RoundTrips(result.messages[i], locale)

-----------------------------------------------------------------------------
(* Claims about detectDateFormat (SpecDetect). *)

\* The lines of the window that carry a date token.
WindowTokens == {i \in 1..Len(SampleWindow(lines)) : Matches(lines[i])}

FirstOf(i) == lines[i][1].date[1]
SecondOf(i) == lines[i][1].date[2]

YearTokens == {i \in WindowTokens : FirstOf(i) > 1000}

FirstYearToken == CHOOSE i \in YearTokens : \A j \in YearTokens : i <= j

\* C6 as stated: a first component above 12 anywhere in the window makes
\* the result day-first.
C6_FirstAbove12IsDayFirst ==
    (pc = "done" /\ \E i \in WindowTokens : FirstOf(i) > 12) => dateFormat = "DMY"

\* C6 amended: a first component above 12 in the window, and none above
\* 1000, makes the result day-first.
C6_FirstAbove12NoYearIsDayFirst ==
    (/\ pc = "done"
     /\ \E i \in WindowTokens : FirstOf(i) > 12
     /\ YearTokens = {}) => dateFormat = "DMY"

\* C6's case: a first component above 12 and a second component above 12
\* in the same window.
C6_Witness ==
    /\ pc = "done"
    /\ \E i \in WindowTokens : FirstOf(i) > 12
    /\ \E i \in WindowTokens : SecondOf(i) > 12
    /\ YearTokens = {}
    /\ dateFormat = "DMY"

\* The order the claim gives: year-first, day-first, month-first, locale.
ExpectedFormat ==
    IF YearTokens # {} THEN "YMD"
    ELSE IF \E i \in WindowTokens : FirstOf(i) > 12 THEN "DMY"
    ELSE IF \E i \in WindowTokens : SecondOf(i) > 12 THEN "MDY"
    ELSE IF locale = <<"en", "US">> THEN "MDY" ELSE "DMY"

\* C7: the result follows that order, and the scan stops at the first token
\* whose first component exceeds 1000.
C7_PriorityOrder ==
    /\ YearTokens # {} => scan <= FirstYearToken
    /\ pc = "done" =>
          /\ dateFormat = ExpectedFormat
          /\ YearTokens # {} => scan = FirstYearToken

\* C7's case: a year-first token before the end of the window, a day above
\* 12 after it, and the scan stopped at the year-first token.
C7_Witness ==
    /\ pc = "done"
    /\ dateFormat = "YMD"
    /\ scan < Len(lines)
    /\ \E i \in WindowTokens : i > scan /\ FirstOf(i) > 12 /\ FirstOf(i) <= 1000

-----------------------------------------------------------------------------
(* Claims about analyzeMessages (SpecAnalyze). *)

\* The messages of the list that fall in the filter year (all without one).
InYear == {i \in 1..Len(chat) : yearFilter = 0 \/ FullYear(chat[i].date) = yearFilter}

\* C8: two calls with the same list and the same filter return results equal
\* in every field, whenever each call is made.
C8_Deterministic == Len(calls) = 2 => calls[1] = calls[2]

\* C9: with no message in the list, or none in the filter year, the call
\* returns a result whose counts are 0, whose users are empty and whose
\* mostRepeatedPhrase is null.
C9_EmptyResultIsZero ==
    \A c \in 1..Len(calls) :
        InYear = {} =>
            /\ calls[c].totalMessages = 0
            /\ calls[c].activeUsersCount = 0
            /\ calls[c].longestStreak = 0
            /\ calls[c].busiestHour = 0
            /\ calls[c].burstStats.count = 0
            /\ calls[c].burstStats.maxBurst = 0
            /\ calls[c].silenceBreaker.maxSilenceHours = 0
            /\ calls[c].users = <<>>
            /\ calls[c].mostRepeatedPhrase = <<>>

\* C9's case: a list of three messages, none in the filter year, analysed.
C9_Witness ==
    /\ Len(chat) = 3
    /\ yearFilter = 2025
    /\ Len(calls) = 2
    /\ calls[2].totalMessages = 0
    /\ calls[2].users = <<>>

\* The local calendar days on which the analysed messages fall.
ActiveLocalDays == {LocalDay(chat[i].date) : i \in InYear}

\* C10: for a non-empty filtered list the longest streak is at least 1 and at
\* most the number of distinct calendar days that have a message.
C10_StreakBounds ==
    \A c \in 1..Len(calls) :
        InYear # {} =>
            /\ calls[c].longestStreak >= 1
            /\ calls[c].longestStreak <= Cardinality(ActiveLocalDays)

-----------------------------------------------------------------------------
(* Claims about the days of analyzeMessages (SpecDays, SpecAnalyze). *)

\* The analysed messages of local calendar day d, and of date key k.
OnLocalDay(d) == {i \in InYear : LocalDay(chat[i].date) = d}
OnDateKey(k) == {i \in InYear : DateKey(chat[i].date, tz) = k}

DateKeys == {DateKey(chat[i].date, tz) : i \in InYear}

\* The messages of the set is that u sent.
From(u, is) == {i \in is : chat[i].sender = u}

\* More than 10 messages, more than 75% of them from u.
OneSidedFor(u, is) ==
    /\ Cardinality(is) > 10
    /\ 4 * Cardinality(From(u, is)) > 3 * Cardinality(is)

\* oneSidedConversationsCount of u in a result; 0 for a sender without entry.
OneSidedCount(res, u) ==
    IF \E j \in 1..Len(res.users) : res.users[j].name = u
    THEN res.users[CHOOSE j \in 1..Len(res.users) : res.users[j].name = u]
             .oneSidedConversationsCount
    ELSE 0

\* C11: a sender's oneSidedConversationsCount is the number of calendar days
\* with more than 10 messages of which the sender sent more than 75%: such a
\* day adds exactly 1 to that sender and nothing to another, other days add
\* nothing.
C11_OneSidedPerCalendarDay ==
    \A c \in 1..Len(calls) : \A u \in Senders :
        OneSidedCount(calls[c], u)
            = Cardinality({d \in ActiveLocalDays : OneSidedFor(u, OnLocalDay(d))})

MaxOnLocalDay ==
    LET sizes == {Cardinality(OnLocalDay(d)) : d \in ActiveLocalDays}
    IN  CHOOSE n \in sizes : \A m \in sizes : m <= n

\* C18: messages of one local calendar day are counted in one bucket and
\* messages of different local days in different buckets, so the count of
\* the busiest day is the most messages on one local calendar day, whatever
\* the host's offset from UTC.
C18_LocalDayBuckets ==
    \A c \in 1..Len(calls) :
        InYear # {} =>
            /\ calls[c].mostActiveDate.count = MaxOnLocalDay
            /\ calls[c].rapidFire.maxInDay = MaxOnLocalDay

\* The length of the longest run of consecutive days in a set of days.
LongestRun(days) ==
    LET lengths == {n \in 0..Cardinality(days) :
                       n = 0 \/ \E d \in days : \A j \in 0..(n - 1) : d + j \in days}
    IN  CHOOSE n \in lengths : \A m \in lengths : m <= n

\* C21: longestStreak is the length of the longest run of consecutive
\* calendar days that each have a message; two active days with an inactive
\* day between them belong to different runs.
C21_LongestRunOfDays ==
    \A c \in 1..Len(calls) : calls[c].longestStreak = LongestRun(ActiveLocalDays)

-----------------------------------------------------------------------------
(* Claims about a conversation (SpecThread). *)

\* The seconds from each message of the list to the next.
GapAfter(i) == Diff(chat[i + 1].date, chat[i].date)
GapPlaces == 1..(Len(chat) - 1)

\* The list is n messages of alternating senders, each 10 seconds after the
\* previous one.
TenSecondsApart(n) ==
    /\ Len(chat) = n
    /\ \A i \in GapPlaces : GapAfter(i) = 10 /\ chat[i + 1].sender # chat[i].sender

\* C12: for exactly 6 messages of alternating senders 10 seconds apart the
\* result has burstStats.count = 1 and maxBurst = 6; for exactly 5 such
\* messages burstStats.count = 0.
C12_SixMessagesOneBurst ==
    \A c \in 1..Len(calls) :
        /\ TenSecondsApart(6) =>
              /\ calls[c].burstStats.count = 1
              /\ calls[c].burstStats.maxBurst = 6
        /\ TenSecondsApart(5) => calls[c].burstStats.count = 0

\* The gaps of more than 6 hours, and the longest of them.
LongGaps == {i \in GapPlaces : GapAfter(i) > 21600}

LongestGap == GapAfter(CHOOSE i \in LongGaps : \A j \in LongGaps : GapAfter(j) <= GapAfter(i))

\* The whole number of hours nearest to a number of seconds, a half going up.
NearestHours(seconds) ==
    CHOOSE n \in 0..((seconds \div 3600) + 1) :
        /\ 3600 * n - 1800 <= seconds
        /\ seconds < 3600 * n + 1800

\* C13: maxSilenceHours is 0 exactly when no message comes more than 6 hours
\* after the one before it; otherwise it is the longest such gap in hours,
\* rounded to the nearest integer, and at least 6.
C13_MaxSilenceHours ==
    \A c \in 1..Len(calls) :
        yearFilter = 0 =>
            LET hours == calls[c].silenceBreaker.maxSilenceHours
            IN  /\ hours = 0 <=> LongGaps = {}
                /\ LongGaps # {} => hours = NearestHours(LongestGap) /\ hours >= 6

\* C13's case: a conversation with a gap of six and a half hours, analysed:
\* the silence is 7 hours.
C13_Witness ==
    /\ Len(calls) >= 1
    /\ \E i \in GapPlaces : GapAfter(i) = 23400
    /\ calls[1].silenceBreaker.maxSilenceHours = 7

\* How often u sent the first message after a gap of more than 6 hours.
BreaksBy(u) == Cardinality({i \in LongGaps : chat[i + 1].sender = u})

\* C17: silenceBreaker.name is a sender who most often sent the first message
\* after a gap of more than 6 hours; the first message of the list is not
\* counted.
C17_SilenceBreakerAfterGap ==
    \A c \in 1..Len(calls) :
        (yearFilter = 0 /\ LongGaps # {}) =>
            \E u \in Senders :
                /\ calls[c].silenceBreaker.name = u
                /\ \A v \in Senders : BreaksBy(v) <= BreaksBy(u)

-----------------------------------------------------------------------------
(* Claims about parseDate (SpecTime). *)

IsPM(mer) == mer \in {"PM", "Pm", "pM", "pm"}
IsAM(mer) == mer \in {"AM", "Am", "aM", "am"}

\* The hour of the 24-hour clock that a 12-hour time with a marker names.
ClockHour(h, mer) ==
    IF IsPM(mer) THEN (IF h < 12 THEN h + 12 ELSE h)
    ELSE (IF h = 12 THEN 0 ELSE h)

\* C15: for every hour 1..12 with AM or PM, the Date parseDate returns has
\* an hour in 0..23: with PM an hour below 12 gets 12 added and 12 stays,
\* with AM 12 becomes 0 and every other hour stays.
C15_MeridiemHours ==
    (/\ pc = "done"
     /\ parsed # NullDate
     /\ stamp.time[1] \in 1..12
     /\ IsPM(stamp.time[3]) \/ IsAM(stamp.time[3]))
        => /\ Hours(parsed) \in 0..23
           /\ Hours(parsed) = ClockHour(stamp.time[1], stamp.time[3])

\* C15's case: 12:00 AM parsed to hour 0 and 12:59 PM to hour 12.
C15_Witness ==
    /\ pc = "done"
    /\ parsed # NullDate
    /\ \/ stamp.time = <<12, 0, "AM", FALSE>> /\ Hours(parsed) = 0
       \/ stamp.time = <<12, 59, "PM", FALSE>> /\ Hours(parsed) = 12

-----------------------------------------------------------------------------
(* Claims about the tables of a result (SpecAnalyze). *)

\* The sum of the messageCount values of a users list.
RECURSIVE CountSum(_)
CountSum(users) ==
    IF users = <<>> THEN 0 ELSE Head(users).messageCount + CountSum(Tail(users))

\* C14: users holds exactly one entry per distinct sender of the analysed
\* messages, in order of non-increasing messageCount; activeUsersCount is
\* the number of entries and the messageCount values sum to totalMessages.
C14_UsersTable ==
    \A c \in 1..Len(calls) :
        LET users == calls[c].users
        IN  /\ {users[j].name : j \in 1..Len(users)} = {chat[i].sender : i \in InYear}
            /\ \A j, k \in 1..Len(users) : users[j].name = users[k].name => j = k
            /\ \A j \in 1..(Len(users) - 1) :
                  users[j].messageCount >= users[j + 1].messageCount
            /\ calls[c].activeUsersCount = Len(users)
            /\ CountSum(users) = calls[c].totalMessages

\* C14's case: the sender of the first message wrote once, the other twice:
\* the other comes first in users.
C14_Witness ==
    /\ Len(calls) >= 1
    /\ Len(calls[1].users) = 2
    /\ calls[1].users[1].messageCount = 2
    /\ calls[1].users[2].messageCount = 1
    /\ calls[1].users[2].name = chat[1].sender

\* C20: every result, that of an empty or wholly filtered-out list included,
\* has an hour-of-day histogram of 24 buckets and a day-of-week histogram of
\* 7 buckets.
C20_HistogramSizes ==
    \A c \in 1..Len(calls) :
        /\ Len(calls[c].hourlyHeatmap) = 24
        /\ DOMAIN calls[c].dayOfWeekStats = 0..6

-----------------------------------------------------------------------------
(* Claims about App and StoryView (SpecApp). *)

\* C19: when a non-empty file parses successfully to zero messages, App
\* switches to the story view and StoryView builds its slide list from the
\* empty result without reading a field of a user that does not exist.
C19_EmptyResultRenders ==
    (/\ text # <<>>
     /\ result.status = "success"
     /\ result.messages = <<>>
     /\ pc \in {"shown", "TypeError"})
        => /\ viewState = "story"
           /\ pc = "shown"
           /\ Len(slides) >= 2

-----------------------------------------------------------------------------
(* Claims about the pass of analyzeMessages over the analysed messages. *)

\* The messages a call analyses, and the state of the pass when the first n
\* of them have been taken.
Analysed == FilterByYear(chat, yearFilter)

PassAfter(n) == Pass(PassInit(tz), SubSeq(Analysed, 1, n), 1, tz)

\* The seconds from the message before message i to message i.
GapBefore(i) == Diff(Analysed[i].date, Analysed[i - 1].date)

\* Message i is not the first, its sender differs from the previous
\* message's sender, and it comes less than 6 hours after that message.
IsReply(i) ==
    /\ i > 1
    /\ Analysed[i].sender # Analysed[i - 1].sender
    /\ GapBefore(i) < 21600

\* The gaps before the replies of u, in the order of the messages.
RepliesOf(u) ==
    LET places == SelectSeq([i \in 1..Len(Analysed) |-> i],
                            LAMBDA i : IsReply(i) /\ Analysed[i].sender = u)
    IN  [k \in 1..Len(places) |-> GapBefore(places[k])]

\* The mean in minutes of a list of times in seconds, rounded to the nearest
\* integer, a half going up; 0 for the empty list.
RoundedMeanMinutes(times) ==
    LET sum == SumSeq(times)
        most == (IF sum < 0 THEN 0 - sum ELSE sum) + 1
    IN  IF times = <<>> THEN 0
        ELSE CHOOSE n \in (0 - most)..most :
                 /\ 60 * Len(times) * (2 * n - 1) <= 2 * sum
                 /\ 2 * sum < 60 * Len(times) * (2 * n + 1)

\* C22: a reply latency is recorded for a message exactly when it is not the
\* first message, its sender differs from the previous message's sender and
\* the gap is under 6 hours; it is recorded for the replying sender, and
\* avgReplyTimeMinutes is the rounded mean of the sender's latencies, 0 when
\* there are none.
C22_ReplyLatencies ==
    \A c \in 1..Len(calls) : \A j \in 1..Len(calls[c].users) :
        LET u == calls[c].users[j].name
        IN  /\ MapGet(PassAfter(Len(Analysed)).userMap, u, NewUser).replyTimes = RepliesOf(u)
            /\ calls[c].users[j].avgReplyTimeMinutes = RoundedMeanMinutes(RepliesOf(u))

\* Message i starts a conversation: it is the first, or it comes more than
\* 6 hours after the message before it.
IsStart(i) == i = 1 \/ GapBefore(i) > 21600

StartsOf(u) == Cardinality({i \in 1..Len(Analysed) : IsStart(i) /\ Analysed[i].sender = u})

\* C23: a conversation start is attributed to the sender of the first message
\* and to the sender of every later message that comes more than 6 hours
\* after the previous one, and to no other message: the start counts sum to
\* 1 plus the number of gaps above 6 hours, and a gap of exactly 6 hours
\* attributes nothing.
C23_ConversationStarts ==
    \A c \in 1..Len(calls) :
        Analysed # <<>> =>
            LET counts == calls[c].silenceBreakCounts
            IN  /\ \A i \in 1..Len(Analysed) :
                      MapGet(counts, Analysed[i].sender, 0) = StartsOf(Analysed[i].sender)
                /\ \A k \in 1..Len(counts) : counts[k].v = StartsOf(counts[k].k)
                /\ SumValues(counts)
                      = 1 + Cardinality({i \in 2..Len(Analysed) : GapBefore(i) > 21600})

\* C23's case: a conversation with a gap of exactly 6 hours and a gap of a
\* second more, analysed: two starts in all.
C23_Witness ==
    /\ Len(calls) >= 1
    /\ \E i \in 2..Len(Analysed) : GapBefore(i) = 21600
    /\ \E i \in 2..Len(Analysed) : GapBefore(i) = 21601
    /\ Cardinality({i \in 2..Len(Analysed) : GapBefore(i) > 21600}) = 1
    /\ SumValues(calls[1].silenceBreakCounts) = 2

\* The states of the pass from message i on, st being the state before it:
\* entry k of PassStates is the state before message k of the analysed list.
RECURSIVE StatesFrom(_, _)
StatesFrom(st, i) ==
    IF i > Len(Analysed) THEN <<st>>
    ELSE <<st>> \o StatesFrom(Accumulate(st, Analysed[i], i - 1, tz), i + 1)

PassStates == StatesFrom(PassInit(tz), 1)

\* What the pass does with message i: the reply step records a latency, the
\* starter step attributes a start.
RecordsLatency(states, i) == ReplyTime(states[i], Analysed[i]) # states[i]

AttributesStart(states, i) == Starter(states[i], Analysed[i], i - 1) # states[i]

\* C27: for every message of the analysed list, recording a reply latency
\* and attributing a conversation start are mutually exclusive, whatever the
\* order and spacing of the timestamps.
C27_ReplyOrStart ==
    LET Exclusive(states) ==
            /\ Len(states) = Len(Analysed) + 1
            /\ \A i \in 1..Len(Analysed) :
                  ~(RecordsLatency(states, i) /\ AttributesStart(states, i))
    IN  Len(calls) >= 1 => Exclusive(PassStates)

\* C27's case: an analysed conversation in which one message records a
\* latency and a later one, more than 6 hours after its predecessor,
\* attributes a start.
C27_Witness ==
    LET Both(states) ==
            /\ Len(states) = Len(Analysed) + 1
            /\ \E i, j \in 2..Len(Analysed) :
                  /\ i < j
                  /\ RecordsLatency(states, i) /\ ~AttributesStart(states, i)
                  /\ AttributesStart(states, j) /\ ~RecordsLatency(states, j)
                  /\ Analysed[j].sender # Analysed[j - 1].sender
    IN  Len(calls) >= 1 /\ Both(PassStates)

\* A run is a stretch of the analysed list in which every message but the
\* first comes less than 60 seconds after the one before it, and which is
\* as long as can be: it starts at message a and ends at RunEnd(a).
RunStart(a) == a = 1 \/ GapBefore(a) >= 60

RunEnd(a) ==
    CHOOSE b \in a..Len(Analysed) :
        /\ \A k \in (a + 1)..b : ~RunStart(k)
        /\ b = Len(Analysed) \/ RunStart(b + 1)

\* The runs of more than 5 messages that a later message follows.
CountedRuns ==
    {a \in 1..Len(Analysed) :
        RunStart(a) /\ RunEnd(a) < Len(Analysed) /\ RunEnd(a) - a + 1 > 5}

LongestCountedRun ==
    IF CountedRuns = {} THEN 0
    ELSE LET lengths == {RunEnd(a) - a + 1 : a \in CountedRuns}
         IN  CHOOSE n \in lengths : \A m \in lengths : m <= n

\* C28: maxBurst is 0 exactly when burstStats.count is 0, and otherwise at
\* least 6 and at most totalMessages; a run is counted only when a later
\* message arrives 60 seconds or more after its last message, so a run of
\* more than 5 messages that lasts until the final message changes neither
\* count nor maxBurst.
C28_BurstStats ==
    \A c \in 1..Len(calls) :
        LET burst == calls[c].burstStats
        IN  /\ burst.maxBurst = 0 <=> burst.count = 0
            /\ burst.count # 0 =>
                  burst.maxBurst >= 6 /\ burst.maxBurst <= calls[c].totalMessages
            /\ burst.count = Cardinality(CountedRuns)
            /\ burst.maxBurst = LongestCountedRun

\* C28's case: a run of 8 messages that a later message follows and a run
\* of 9 messages that lasts until the final message, analysed: one burst, of
\* 8 messages.
C28_Witness ==
    /\ Len(calls) >= 1
    /\ \E a \in CountedRuns : RunEnd(a) - a + 1 = 8
    /\ \E a \in 1..Len(Analysed) :
          RunStart(a) /\ RunEnd(a) = Len(Analysed) /\ RunEnd(a) - a + 1 = 9
    /\ calls[1].burstStats = [count |-> 1, maxBurst |-> 8]

-----------------------------------------------------------------------------
(* Claims about the year filter of analyzeMessages (SpecAnalyze). *)

\* A result without its yearOptions.
ButYearOptions(res) == [res EXCEPT !.yearOptions = <<>>]

\* C29: for a list and a filter year with at least one message of the list
\* in that year, the result equals the result of the call without filter on
\* the messages of that year alone, in every field except yearOptions, which
\* holds all years present in the whole list; the pass starts fresh at the
\* first message of the year.
C29_FilterIsRestriction ==
    LET years == {FullYear(chat[i].date) : i \in 1..Len(chat)}
        Agree(without) ==
            /\ without.yearOptions = <<yearFilter>>
            /\ \A c \in 1..Len(calls) :
                  /\ ButYearOptions(calls[c]) = ButYearOptions(without)
                  /\ {calls[c].yearOptions[j] : j \in 1..Len(calls[c].yearOptions)} = years
                  /\ Len(calls[c].yearOptions) = Cardinality(years)
    IN  (Len(calls) >= 1 /\ yearFilter # 0 /\ Analysed # <<>>)
            => Agree(analyzeMessages(Analysed, 0, now, tz))

\* C29's case: a list whose first message is of 2023 and whose later
\* messages are of 2024, analysed for 2024.
C29_Witness ==
    /\ Len(calls) >= 1
    /\ yearFilter = 2024
    /\ Len(chat) >= 3
    /\ FullYear(chat[1].date) = 2023
    /\ Len(Analysed) = Len(chat) - 1
    /\ calls[1].yearOptions = <<2024, 2023>>
    /\ calls[1].totalMessages = Len(chat) - 1

-----------------------------------------------------------------------------
(* Claims about the message list of parseChatFile (SpecParse). *)

\* The message the line emits.
EmittedBy(line) ==
    [date |-> parseDate(line[1].date, line[1].time, dateFormat),
     sender |-> MessageSender(Tail(line), IndexOfColon(Tail(line))),
     content |-> MessageContent(Tail(line), IndexOfColon(Tail(line)))]

\* C30: messages are emitted in the order of their lines and the list only
\* grows; the sender and timestamp of a message never change, and its
\* content never changes once a later message has been emitted or a
\* timestamped line without a sender has cleared the current message: a
\* continuation line modifies only the content of the most recent message.
C30_EarlierMessagesFrozen ==
    [][Turn =>
         LET old == parser.messages
             new == parser'.messages
         IN  /\ IF EmitsMessage(CurrentLine)
                THEN new = Append(old, EmittedBy(CurrentLine))
                ELSE Len(new) = Len(old)
            /\ \A j \in 1..Len(old) :
                  /\ new[j].sender = old[j].sender
                  /\ new[j].date = old[j].date
                  /\ (\/ j < Len(old)
                      \/ Matches(CurrentLine)
                      \/ FollowsSenderlessLine(lines, lineNo + 1))
                        => new[j].content = old[j].content]_vars

\* C30's case: two messages and a plain line: the line is appended to the
\* second message and the first is as it was emitted.
C30_Witness ==
    /\ pc = "done"
    /\ lines = << <<tA>> \o Str(<<"a", ":", " ", "b">>),
                  <<tA>> \o Str(<<"b", ":", "c", " ", ":">>),
                  Str(<<" ", "c", " ">>) >>
    /\ Len(result.messages) = 2
    /\ result.messages[1].content = Str(<<"b">>)
    /\ HasNL(result.messages[2].content)

-----------------------------------------------------------------------------
(* Claims about the text analysis of analyzeMessages (SpecText). *)

\* The media placeholder and the deletion marker among the contents, and the
\* analysed messages that are neither.
IsPlaceholder(content) == content \in {Contents[1], Contents[2]}

PlainMessages == SelectSeq(Analysed, LAMBDA m : ~IsPlaceholder(m.content))

SentBy(u, msgs) == Len(SelectSeq(msgs, LAMBDA m : m.sender = u))

\* What a result says of the text of u: all 0 and empty for a sender without
\* entry.
TextOf(res, u) ==
    IF \E j \in 1..Len(res.users) : res.users[j].name = u
    THEN LET x == res.users[CHOOSE j \in 1..Len(res.users) : res.users[j].name = u]
         IN  [messages |-> x.messageCount,
              words |-> x.wordCount,
              short |-> x.shortMessageCount,
              long |-> x.longMessageCount,
              text |-> x.textMessageCount,
              emoji |-> x.emojiMessageCount,
              topWords |-> x.topWords,
              emojis |-> x.emojis]
    ELSE [messages |-> 0, words |-> 0, short |-> 0, long |-> 0, text |-> 0,
          emoji |-> 0, topWords |-> <<>>, emojis |-> <<>>]

\* C24: every analysed message adds 1 to its sender's messageCount and to
\* totalMessages whatever its classification, while a media placeholder or
\* an edit/delete marker adds nothing to the sender's wordCount, short and
\* long counts, text-only and emoji-bearing counts, the word table, the
\* phrase table or the longest-message record: these are what they are for
\* the list without such messages.
C24_PlaceholdersCountedNotRead ==
    LET Same(plain) ==
            /\ plain.totalMessages = Len(PlainMessages)
            /\ \A c \in 1..Len(calls) :
                  /\ calls[c].totalMessages = Len(Analysed)
                  /\ \A u \in Senders :
                        /\ TextOf(calls[c], u).messages = SentBy(u, Analysed)
                        /\ [TextOf(calls[c], u) EXCEPT !.messages = 0]
                              = [TextOf(plain, u) EXCEPT !.messages = 0]
                  /\ calls[c].wordOccurrences = plain.wordOccurrences
                  /\ calls[c].mostRepeatedPhrase = plain.mostRepeatedPhrase
                  /\ calls[c].longestMessage.wordCount = plain.longestMessage.wordCount
                  /\ calls[c].longestMessage.content = plain.longestMessage.content
                  /\ calls[c].longestMessage.sender = plain.longestMessage.sender
            /\ PassAfter(Len(Analysed)).phraseMap
                  = Pass(PassInit(tz), PlainMessages, 1, tz).phraseMap
    IN  Len(calls) >= 1 => Same(analyzeMessages(PlainMessages, 0, now, tz))

\* C24's case: Alice sends a media placeholder, a deletion marker and
\* 'the cat sat': 3 messages, 3 words.
C24_Witness ==
    /\ Len(calls) >= 1
    /\ Len(chat) = 3
    /\ chat[1] = [date |-> ThreadStart, sender |-> Alice, content |-> Contents[1]]
    /\ chat[2] = [date |-> ThreadStart, sender |-> Alice, content |-> Contents[2]]
    /\ chat[3] = [date |-> ThreadStart, sender |-> Alice, content |-> Contents[3]]
    /\ calls[1].totalMessages = 3
    /\ calls[1].users[1].messageCount = 3
    /\ calls[1].users[1].wordCount = 3
    /\ calls[1].users[1].mediaMessageCount = 1

\* The tokens of a content that remain after the stop words are filtered out.
FilteredTokens(content) == SelectSeq(CleanWords(content), LAMBDA w : w \notin STOP_WORDS)

\* The phrase table after the pass over the analysed messages.
PhraseTable == PassAfter(Len(Analysed)).phraseMap

\* C25: every phrase counted in the phrase table is a pair of tokens
\* adjacent in the stream of some analysed message that remains after the
\* stop words are filtered out, so no counted phrase contains a stop word.
C25_PhrasesFromFilteredStream ==
    LET Filtered(table) ==
            \A p \in 1..Len(table) :
                \E i \in 1..Len(Analysed) :
                    \E j \in 1..(Len(FilteredTokens(Analysed[i].content)) - 1) :
                        table[p].k = FilteredTokens(Analysed[i].content)[j] \o <<SP>>
                                       \o FilteredTokens(Analysed[i].content)[j + 1]
    IN  Len(calls) >= 1 => Filtered(PhraseTable)

\* The occurrences of the phrase at place i of a table written by u.
SaidBy(table, i, u) ==
    IF \E n \in 1..Len(table[i].v.users) : table[i].v.users[n].k = u
    THEN table[i].v.users[CHOOSE n \in 1..Len(table[i].v.users) :
                              table[i].v.users[n].k = u].v
    ELSE 0

\* C26: mostRepeatedPhrase is null when no two-word phrase occurs more than
\* 3 times; otherwise it is a phrase with the highest occurrence count among
\* those occurring more than 3 times, the first encountered on ties, its
\* count is that occurrence count, and its topUser is a sender with the most
\* occurrences of that exact phrase.
C26_MostRepeatedPhrase ==
    LET Chosen(table, top) ==
            /\ Len(table) >= 0
            /\ IF \A p \in 1..Len(table) : table[p].v.count <= 3
               THEN top = <<>>
               ELSE /\ top # <<>>
                    /\ \E i \in 1..Len(table) :
                          /\ table[i].k = top.phrase
                          /\ table[i].v.count = top.count
                          /\ top.count > 3
                          /\ \A p \in 1..Len(table) : table[p].v.count <= top.count
                          /\ \A p \in 1..(i - 1) : table[p].v.count < top.count
                          /\ SaidBy(table, i, top.topUser) >= 1
                          /\ \A u \in Senders :
                                SaidBy(table, i, u) <= SaidBy(table, i, top.topUser)
    IN  \A c \in 1..Len(calls) : Chosen(PhraseTable, calls[c].mostRepeatedPhrase)

\* C26's case: 'ha ha' is written twice by Alice and twice by Bob, then
\* 'yo yo' four times by Bob: the first phrase to reach 4 is the result.
C26_Witness ==
    /\ Len(calls) >= 1
    /\ Len(chat) = 3
    /\ chat[1] = [date |-> ThreadStart, sender |-> Alice, content |-> Contents[4]]
    /\ chat[2] = [date |-> ThreadStart, sender |-> Bob, content |-> Contents[4]]
    /\ chat[3] = [date |-> ThreadStart, sender |-> Bob, content |-> Contents[5]]
    /\ calls[1].mostRepeatedPhrase
          = [phrase |-> Str(<<"h", "a", " ", "h", "a">>), count |-> 4, topUser |-> Alice]

=============================================================================
